---- MODULE Spec2Model ----
(***************************************************************************)
(* Model of the auth stack of tweek-mcp: TokenStore (encrypted token file), *)
(* IdentityClient.refreshIdToken and AuthManager (cache, expiry check,      *)
(* proactive and on-demand refresh), and of its HTTP layer: the mapping of  *)
(* statuses to error types and withRetry.                                   *)
(*                                                                          *)
(* JavaScript runs every piece of code between two awaits to completion,    *)
(* so each action below is one such piece: the synchronous part of a call,  *)
(* or the continuation that runs when an awaited promise settles.           *)
(***************************************************************************)
EXTENDS Integers, Sequences, FiniteSets, TLC

VARIABLES
  file,              \* content of the token file at config.tokensPath
  encryptionKey,     \* config.encryptionKey (NoKey when not configured)
  refreshBufferSec,  \* AuthManager.refreshBufferSec
  now,               \* Date.now(), epoch milliseconds
  ticks,             \* how often the clock has advanced
  cachedTokens,      \* AuthManager.cachedTokens (Null or a pair)
  calls,             \* task 0: the refresh started by initialize();
                     \* tasks 1..MaxCalls: getValidIdToken() calls
  initResult,        \* outcome of initialize() as its caller sees it
  reads,             \* log of TokenStore.read calls: <<ok, failed>> counts
  warnings,          \* number of console.warn lines of the startup refresh
  loaded,            \* the pair TokenStore.read first returned to the manager
  returned,          \* the getValidIdToken() call that settled last, with
                     \* the idToken it resolved with or the error it threw
  storeOut,          \* outcome of the last stand-alone TokenStore.read
  fnIn,              \* arguments of a function evaluated on its own
  fnOut,             \* its result
  writer,            \* a TokenStore.write in progress in another process,
                     \* between two of its file system calls
  req,               \* one request run through withRetry
  idCall,            \* one call of the IdentityClient
  client,            \* the HttpClient of the TweekClient and the operations using it
  twin               \* a second HttpClient, given the same requests with other secrets

vars == <<file, encryptionKey, refreshBufferSec, now, ticks, cachedTokens,
          calls, initResult, reads, warnings, loaded, returned, storeOut, fnIn, fnOut,
          writer, req, idCall, client, twin>>

authVars == <<refreshBufferSec, now, ticks, cachedTokens, calls, initResult,
              reads, warnings, loaded, returned>>

----------------------------------------------------------------------------
(* Bounds of the model *)

MaxCalls == 2
MaxTicks == 1

(* JavaScript values.  Epoch times and durations are non-negative integers; *)
(* the two non-numbers an expiresAt can hold get values below zero.         *)

\* nowMs + undefined * 1000
NaN == -1
\* what JSON.stringify writes for NaN, and JSON.parse reads back
JsonNull == -2
MsPerSec == 1000

Null == [t |-> "null"]
\* config.encryptionKey undefined or empty: read() and write() treat both alike
NoKey == ""
Missing == -3

IsNumber(x) == x >= 0

\* ToNumber, as the relational operators apply it: null is +0
ToNumber(x) == IF x = JsonNull THEN 0 ELSE x

\* a <= b on JavaScript numbers: false when either side is NaN
JsLeq(a, b) == /\ a # NaN /\ a # Missing
               /\ b # NaN /\ b # Missing
               /\ ToNumber(a) <= ToNumber(b)

\* a + b on JavaScript numbers
JsAdd(a, b) == IF a = NaN \/ b = NaN \/ a = Missing \/ b = Missing
               THEN NaN ELSE ToNumber(a) + ToNumber(b)

\* a * b on JavaScript numbers (undefined * n is NaN)
JsMul(a, b) == IF a = NaN \/ b = NaN \/ a = Missing \/ b = Missing
               THEN NaN ELSE ToNumber(a) * ToNumber(b)

MathMin(a, b) == IF a <= b THEN a ELSE b
MathMax(a, b) == IF a >= b THEN a ELSE b

AuthTokens(id, rt, exp) == [idToken |-> id, refreshToken |-> rt, expiresAt |-> exp]

----------------------------------------------------------------------------
(* TokenStore *)

\* 0o600 and a more permissive mode a file may be found with (0o644)
Mode600 == 384
Mode644 == 420

\* The entry at config.tokensPath: kind is what lstat reports, mode its
\* permission bits, data the bytes read through the path.
Absent == [kind |-> "absent", mode |-> 0, data |-> [t |-> "none"]]
Garbage == [t |-> "garbage"]
\* a file of length zero
EmptyText == [t |-> "empty"]

\* JSON.stringify of an object: NaN is written as null
JsonStringify(obj) ==
  [t |-> "json",
   value |-> IF "expiresAt" \in DOMAIN obj /\ obj.expiresAt = NaN
             THEN [obj EXCEPT !.expiresAt = JsonNull]
             ELSE obj]

\* JSON.parse: a SyntaxError on bytes that are no JSON text
JsonParse(text) ==
  IF text.t = "json" THEN [ok |-> TRUE, value |-> text.value]
  ELSE [ok |-> FALSE, value |-> Null]

\* SHA-256 of the key string: a 32-byte key, distinct for distinct strings
deriveKeyBytesFromString(key) == [sha256 |-> key]

\* AES-256-GCM, symbolically: the ciphertext names what it encrypts and the
\* key and nonce it was made with; the tag authenticates all three.
GcmCiphertext(key, iv, plaintext) == [key |-> key, iv |-> iv, pt |-> plaintext]
GcmTag(key, iv, ciphertext) == [key |-> key, iv |-> iv, ct |-> ciphertext]

encryptAesGcm(plaintext, keyString, iv) ==
  LET key == deriveKeyBytesFromString(keyString)
      ciphertext == GcmCiphertext(key, iv, plaintext)
  IN [v |-> 1, nonce |-> iv, tag |-> GcmTag(key, iv, ciphertext),
      ciphertext |-> ciphertext]

decryptAesGcm_NoTagCheck(envelope, keyString) ==
  [ok |-> TRUE, plaintext |-> envelope.ciphertext.pt]

\* decipher.final() throws unless the tag matches key, nonce and ciphertext
decryptAesGcm(envelope, keyString) ==
  LET key == deriveKeyBytesFromString(keyString)
  IN IF envelope.tag = GcmTag(key, envelope.nonce, envelope.ciphertext)
     THEN [ok |-> TRUE, plaintext |-> envelope.ciphertext.pt]
     ELSE [ok |-> FALSE, plaintext |-> Garbage]

HasKey(key) == key # NoKey

\* assertSecureFile: every error inside is swallowed by its catch; the one
\* effect is the chmod of a regular file whose mode is not 0600.
assertSecureFile_NoChmod(f) == f

assertSecureFile(f) ==
  IF f.kind = "file" /\ f.mode # Mode600 THEN [f EXCEPT !.mode = Mode600] ELSE f

\* readFileSync(path): follows a symlink, fails on a missing entry or directory
readFileSync(f) ==
  CASE f.kind = "absent" -> [ok |-> FALSE, errno |-> "ENOENT", data |-> Garbage]
    [] f.kind = "dir"    -> [ok |-> FALSE, errno |-> "EISDIR", data |-> Garbage]
    [] OTHER             -> [ok |-> TRUE, errno |-> "", data |-> f.data]

ReadOk(tokens, nDecrypt) ==
  [ok |-> TRUE, tokens |-> tokens, code |-> "", cause |-> "", decrypts |-> nDecrypt]
ReadThrows(code, cause, nDecrypt) ==
  [ok |-> FALSE, tokens |-> Null, code |-> code, cause |-> cause, decrypts |-> nDecrypt]

\* decryptEnvelopeToJson, with what it throws named by cause
decryptEnvelopeToJson(data, key) ==
  LET parsed == JsonParse(data)
      envelope == parsed.value
  IN IF ~parsed.ok THEN [ok |-> FALSE, cause |-> "SyntaxError", text |-> Garbage, decrypts |-> 0]
     ELSE IF ~("v" \in DOMAIN envelope /\ envelope.v = 1)
     THEN [ok |-> FALSE, cause |-> "TOKENS_FORMAT_UNSUPPORTED", text |-> Garbage, decrypts |-> 0]
     ELSE LET d == decryptAesGcm(envelope, key)
          IN IF d.ok THEN [ok |-> TRUE, cause |-> "", text |-> d.plaintext, decrypts |-> 1]
             ELSE [ok |-> FALSE, cause |-> "AuthTagMismatch", text |-> Garbage, decrypts |-> 1]

ReadCatch_Rethrows(cause, nDecrypt) == ReadThrows(cause, cause, nDecrypt)

\* the catch clause of read(): ENOENT becomes TOKENS_NOT_FOUND, everything
\* else (AppErrors thrown inside the try included) is wrapped as INTERNAL
ReadCatch(cause, nDecrypt) ==
  IF cause = "ENOENT" THEN ReadThrows("TOKENS_NOT_FOUND", cause, nDecrypt)
  ELSE ReadThrows("INTERNAL", cause, nDecrypt)

\* TokenStore.read(): the value returned or the error thrown
TokenStoreRead(f, key) ==
  LET raw == readFileSync(assertSecureFile(f))
  IN IF ~raw.ok THEN ReadCatch(raw.errno, 0)
     ELSE IF HasKey(key)
     THEN LET j == decryptEnvelopeToJson(raw.data, key)
          IN IF ~j.ok THEN ReadCatch(j.cause, j.decrypts)
             ELSE LET p == JsonParse(j.text)
                  IN IF p.ok THEN ReadOk(p.value, j.decrypts)
                     ELSE ReadCatch("SyntaxError", j.decrypts)
     ELSE LET p == JsonParse(raw.data)
          IN IF p.ok THEN ReadOk(p.value, 0) ELSE ReadCatch("SyntaxError", 0)

\* the token file after read(): assertSecureFile may have reset the mode
FileAfterRead(f) == assertSecureFile(f)

\* the bytes write() hands to writeFileSync
WriteBytes(tokens, key, iv) ==
  IF HasKey(key) THEN JsonStringify(encryptAesGcm(JsonStringify(tokens), key, iv))
  ELSE JsonStringify(tokens)

\* writeFileSync(path, bytes, {mode: 0o600}) that succeeds: the content is
\* replaced; the mode option counts only when the file is created, and then
\* the file gets the mode the file system makes of it (created); an existing
\* file keeps its mode
writeFileSync(f, bytes, created) ==
  [kind |-> IF f.kind = "absent" THEN "file" ELSE f.kind,
   mode |-> IF f.kind = "absent" THEN created ELSE f.mode,
   data |-> bytes]

chmodSync(f, mode) == [f EXCEPT !.mode = mode]

TokenStoreWrite_NoChmod(f, tokens, key, iv, created) ==
  writeFileSync(f, WriteBytes(tokens, key, iv), created)

\* TokenStore.write() that succeeds
TokenStoreWrite(f, tokens, key, iv, created) ==
  chmodSync(writeFileSync(f, WriteBytes(tokens, key, iv), created), Mode600)

----------------------------------------------------------------------------
(* IdentityClient *)

\* A retry-after header: text is its value, finite and seconds what
\* Number(text) gives (finite: not NaN and not infinite), isDate and when
\* what Date.parse(text) gives, form what the text is as a Retry-After value:
\* a number of seconds in digits, an HTTP-date, or neither.
RetryAfter(text, form, finite, seconds, isDate, when) ==
  [present |-> TRUE, text |-> text, form |-> form, finite |-> finite,
   seconds |-> seconds, isDate |-> isDate, when |-> when]
\* the response has no retry-after header: headers.get gives null
NoHeader ==
  [present |-> FALSE, text |-> "", form |-> "absent", finite |-> FALSE,
   seconds |-> 0, isDate |-> FALSE, when |-> 0]

\* What the network does to one identity request: the fetch rejects (transport
\* failure, or the abort fired by the request timeout), or a response arrives.
FetchThrows(isAbort) ==
  [t |-> "throw", isAbort |-> isAbort, status |-> 0, body |-> Garbage,
   retryAfter |-> NoHeader]
Response(status, body) ==
  [t |-> "response", isAbort |-> FALSE, status |-> status, body |-> body,
   retryAfter |-> NoHeader]
RefreshBody(idToken, expiresIn) ==
  [t |-> "json", value |-> [idToken |-> idToken, expiresIn |-> expiresIn]]
SignInBody(idToken, refreshToken, expiresIn) ==
  [t |-> "json",
   value |-> [idToken |-> idToken, refreshToken |-> refreshToken, expiresIn |-> expiresIn]]

\* what an identity call resolves with
IdentityOk(idToken, expiresAt) ==
  [ok |-> TRUE, idToken |-> idToken, refreshToken |-> "", expiresAt |-> expiresAt,
   name |-> "", code |-> "", message |-> "", status |-> Missing,
   retryAfterMs |-> Missing]
\* the AppError an identity call rejects with: details.status and
\* details.retryAfterMs are Missing where the error has none
IdentityThrows(code) ==
  [ok |-> FALSE, idToken |-> "", refreshToken |-> "", expiresAt |-> NaN,
   name |-> "AppError", code |-> code, message |-> "", status |-> Missing,
   retryAfterMs |-> Missing]
\* an error that is no AppError (it has no code) leaves the call as it is
RawError(name) ==
  [IdentityThrows("") EXCEPT !.name = name]

parseRetryAfterMs(header, nowMs) ==
  IF header.finite THEN MathMax(0, header.seconds * MsPerSec)
  ELSE IF header.isDate THEN MathMax(0, header.when - nowMs)
  ELSE Missing

\* what the calls are named in their messages
CallLabel(kind) == IF kind = "signIn" THEN "sign-in" ELSE "refresh"

FetchCatch_Generic(kind, isAbort) ==
  [IdentityThrows("IDENTITY_NETWORK")
     EXCEPT !.message = "Identity " \o CallLabel(kind) \o " network failure"]

\* the catch clause around fetch
FetchCatch(kind, isAbort) ==
  [IdentityThrows("IDENTITY_NETWORK")
     EXCEPT !.message = IF isAbort
                        THEN "Identity " \o CallLabel(kind) \o " aborted/timeout"
                        ELSE "Identity " \o CallLabel(kind) \o " network failure"]

IdentityErrorCode_403Network(status) ==
  IF status = 401 THEN "IDENTITY_UNAUTHORIZED"
  ELSE IF status = 429 THEN "IDENTITY_RATE_LIMITED"
  ELSE "IDENTITY_NETWORK"

\* the code of the AppError thrown for a response that is not ok
IdentityErrorCode(status) ==
  IF status = 401 \/ status = 403 THEN "IDENTITY_UNAUTHORIZED"
  ELSE IF status = 429 THEN "IDENTITY_RATE_LIMITED"
  ELSE "IDENTITY_NETWORK"

\* the `if (!res.ok)` block of both calls
IdentityNotOk(outcome, nowMs) ==
  LET retryAfterMs == IF outcome.retryAfter.present
                      THEN parseRetryAfterMs(outcome.retryAfter, nowMs)
                      ELSE Missing
      code == IdentityErrorCode(outcome.status)
  IN [IdentityThrows(code)
        EXCEPT !.status = outcome.status,
               !.retryAfterMs = IF code = "IDENTITY_RATE_LIMITED" THEN retryAfterMs
                                ELSE Missing]

IsOk(status) == status >= 200 /\ status <= 299

\* a body whose read fails: res.json() rejects with a TypeError
FailedRead == [t |-> "failed"]

\* refreshIdToken: the value it resolves with or the error it rejects with,
\* nowMs being Date.now() when the response is handled
refreshIdToken(outcome, nowMs) ==
  IF outcome.t = "throw" THEN FetchCatch("refresh", outcome.isAbort)
  ELSE IF ~IsOk(outcome.status) THEN IdentityNotOk(outcome, nowMs)
  ELSE IF outcome.body = FailedRead THEN RawError("TypeError")
  ELSE LET body == JsonParse(outcome.body)
       IN IF ~body.ok THEN RawError("SyntaxError")
          ELSE IdentityOk(body.value.idToken,
                          JsAdd(nowMs, JsMul(body.value.expiresIn, MsPerSec)))

\* signInWithEmailPassword, likewise
signInWithEmailPassword(outcome, nowMs) ==
  IF outcome.t = "throw" THEN FetchCatch("signIn", outcome.isAbort)
  ELSE IF ~IsOk(outcome.status) THEN IdentityNotOk(outcome, nowMs)
  ELSE IF outcome.body = FailedRead THEN RawError("TypeError")
  ELSE LET body == JsonParse(outcome.body)
       IN IF ~body.ok THEN RawError("SyntaxError")
          ELSE [IdentityOk(body.value.idToken,
                           JsAdd(nowMs, JsMul(body.value.expiresIn, MsPerSec)))
                  EXCEPT !.refreshToken = body.value.refreshToken]

----------------------------------------------------------------------------
(* AuthManager *)

isExpiringSoon_Strict(tokens, nowMs, bufferSec) ==
  LET bufferMs == JsMul(bufferSec, MsPerSec)
  IN JsLeq(tokens.expiresAt, JsAdd(nowMs, bufferMs)) /\ tokens.expiresAt # JsAdd(nowMs, bufferMs)

isExpiringSoon(tokens, nowMs, bufferSec) ==
  LET bufferMs == JsMul(bufferSec, MsPerSec)
  IN JsLeq(tokens.expiresAt, JsAdd(nowMs, bufferMs))

\* `if (!this.cachedTokens)`: the store is read only to fill an empty cache
NeedsLoad_Always(cached) == TRUE

NeedsLoad(cached) == cached = Null

\* refresh(), after the identity call resolved with `updated`: the pair it
\* caches and the pair it passes to TokenStore.write
RefreshApply_WritesStale(cached, refreshToken, updated) ==
  [cachedTokens |-> AuthTokens(updated.idToken, refreshToken, updated.expiresAt),
   written |-> cached]

RefreshApply_Rotates(cached, refreshToken, updated) ==
  LET newTokens == AuthTokens(updated.idToken, updated.idToken, updated.expiresAt)
  IN [cachedTokens |-> newTokens, written |-> newTokens]

RefreshApply(cached, refreshToken, updated) ==
  LET newTokens == AuthTokens(updated.idToken, refreshToken, updated.expiresAt)
  IN [cachedTokens |-> newTokens, written |-> newTokens]

\* refresh() when the identity call rejects: the throw leaves the method
\* before anything is assigned, so the cache is what it was
RefreshRejected_Clears(cached) == Null

RefreshRejected(cached) == cached

\* the .catch of the startup refresh: logs one warning whatever was thrown
\* and raises nothing
StartupCatch_Rethrows(err) == [warn |-> 0, raised |-> err]

StartupCatch(err) == [warn |-> 1, raised |-> ""]

\* getValidIdToken after `await this.refresh()`: the rejection propagates,
\* otherwise the cached idToken is returned
AfterRefresh_Swallows(refreshErr, cached) ==
  [pc |-> "resolved", result |-> cached.idToken, err |-> ""]

AfterRefresh(refreshErr, cached) ==
  IF refreshErr # "" THEN [pc |-> "rejected", result |-> "", err |-> refreshErr]
  ELSE [pc |-> "resolved", result |-> cached.idToken, err |-> ""]

----------------------------------------------------------------------------
(* The inputs the model draws from *)

Keys == {NoKey, "k1"}
Nonces == {"iv1"}
BufferSecs == {1}
\* the pairs the sign-in command may have stored: expiring exactly at the
\* buffer boundary of the start time, one millisecond later, and much later
InitPairs ==
  {AuthTokens("old", "r1", 1000), AuthTokens("old", "r1", 1001),
   AuthTokens("older", "r2", 3001)}
\* the clock is read one second later
TickMs == MsPerSec

RefreshOutcomes ==
  {FetchThrows(TRUE), FetchThrows(FALSE), Response(401, Garbage), Response(429, Garbage)}
    \cup {Response(200, RefreshBody("n1", 2)), Response(200, RefreshBody("n2", Missing))}

\* how a TokenStore.write can fail: mkdirSync or the open of the file throws
WriteFailures == {"EACCES"}
\* the mode a newly created file may come out with: the one asked for, or a
\* more permissive one where the file system applies its own default
CreateModes == {Mode600, Mode644}

Tasks == 0..MaxCalls
Callers == 1..MaxCalls

\* A task between its steps.  pc: where it stands; nRefresh: the number of
\* refreshIdToken calls it made; alone: no other refresh was outstanding when
\* it started its own; rt: the refresh token it sent; resp: what its
\* identity call resolved with; wrote: the pair its refresh passed to
\* TokenStore.write; err: what its refresh rejected with.
IdleCall ==
  [pc |-> "idle", nRefresh |-> 0, rt |-> "", resp |-> Null, wrote |-> Null,
   err |-> "", alone |-> FALSE]

\* a task that has settled: the locals of its frames are gone
Settled(call, pc) ==
  [IdleCall EXCEPT !.pc = pc, !.nRefresh = call.nRefresh, !.alone = call.alone]

\* what the caller of getValidIdToken() gets
Settlement(c, pc, result, err) == [call |-> c, pc |-> pc, result |-> result, err |-> err]

NoSettlement == Settlement(0, "none", "", "")

\* calls are numbered in the order they are made
IsNextCall(c) == c = 1 \/ calls[c - 1].pc # "idle"

Outstanding(cs) == {c \in DOMAIN cs : cs[c].pc = "awaitRefresh"}

----------------------------------------------------------------------------
(* Actions of the AuthManager *)

\* refresh() up to its await: the cache is filled by then in both callers
\* (so its own load is skipped), and cachedTokens.refreshToken is sent to
\* the identity service
BeginRefresh(c, cached) ==
  [calls[c] EXCEPT !.pc = "awaitRefresh", !.nRefresh = @ + 1,
                   !.rt = cached.refreshToken,
                   !.alone = (Outstanding(calls) = {})]

\* initialize() when TokenStore.read throws: the error reaches the caller
InitializeThrows ==
  /\ initResult = "none"
  /\ \A c \in Tasks : calls[c].pc = "idle"
  /\ LET r == TokenStoreRead(file, encryptionKey)
     IN /\ ~r.ok
        /\ initResult' = r.code
        /\ reads' = [reads EXCEPT !.failed = @ + 1]
  /\ file' = FileAfterRead(file)
  /\ UNCHANGED <<encryptionKey, refreshBufferSec, now, ticks, cachedTokens,
                 calls, warnings, loaded, returned, storeOut, fnIn, fnOut, writer, req, idCall, client, twin>>

\* initialize(): loads the pair, starts the best-effort refresh if it is
\* expiring soon, and returns without awaiting it
Initialize ==
  /\ initResult = "none"
  /\ \A c \in Tasks : calls[c].pc = "idle"
  /\ LET r == TokenStoreRead(file, encryptionKey)
     IN /\ r.ok
        /\ cachedTokens' = r.tokens
        /\ loaded' = r.tokens
        /\ reads' = [reads EXCEPT !.ok = @ + 1]
        /\ calls' = IF isExpiringSoon(r.tokens, now, refreshBufferSec)
                    THEN [calls EXCEPT ![0] = BeginRefresh(0, r.tokens)]
                    ELSE calls
  /\ initResult' = "returned"
  /\ file' = FileAfterRead(file)
  /\ UNCHANGED <<encryptionKey, refreshBufferSec, now, ticks, warnings,
                 returned, storeOut, fnIn, fnOut, writer, req, idCall, client, twin>>

\* getValidIdToken() with an empty cache and a store that cannot be read
GetValidIdTokenReadFails(c) ==
  /\ calls[c].pc = "idle"
  /\ IsNextCall(c)
  /\ NeedsLoad(cachedTokens)
  /\ LET r == TokenStoreRead(file, encryptionKey)
     IN /\ ~r.ok
        /\ calls' = [calls EXCEPT ![c] = Settled(calls[c], "rejected")]
        /\ returned' = Settlement(c, "rejected", "", r.code)
        /\ reads' = [reads EXCEPT !.failed = @ + 1]
  /\ file' = FileAfterRead(file)
  /\ UNCHANGED <<encryptionKey, refreshBufferSec, now, ticks, cachedTokens,
                 initResult, warnings, loaded, storeOut, fnIn, fnOut, writer, req, idCall, client, twin>>

\* getValidIdToken() up to its first await or its return: fills the cache if
\* empty, then either starts a refresh or returns the cached idToken
GetValidIdToken(c) ==
  /\ calls[c].pc = "idle"
  /\ IsNextCall(c)
  /\ LET load == NeedsLoad(cachedTokens)
         r == TokenStoreRead(file, encryptionKey)
         tokens == IF load THEN r.tokens ELSE cachedTokens
     IN /\ load => r.ok
        /\ cachedTokens' = tokens
        /\ loaded' = IF load /\ loaded = Null THEN r.tokens ELSE loaded
        /\ reads' = IF load THEN [reads EXCEPT !.ok = @ + 1] ELSE reads
        /\ file' = IF load THEN FileAfterRead(file) ELSE file
        /\ IF isExpiringSoon(tokens, now, refreshBufferSec)
           THEN /\ calls' = [calls EXCEPT ![c] = BeginRefresh(c, tokens)]
                /\ UNCHANGED returned
           ELSE /\ calls' = [calls EXCEPT ![c] = Settled(calls[c], "resolved")]
                /\ returned' = Settlement(c, "resolved", tokens.idToken, "")
  /\ UNCHANGED <<encryptionKey, refreshBufferSec, now, ticks, initResult,
                 warnings, storeOut, fnIn, fnOut, writer, req, idCall, client, twin>>

\* the identity call of task c rejects: refresh() rejects with the same error
RefreshIdentityFails(c) ==
  /\ calls[c].pc = "awaitRefresh"
  /\ \E outcome \in RefreshOutcomes :
       LET updated == refreshIdToken(outcome, now)
       IN /\ ~updated.ok
          /\ calls' = [calls EXCEPT ![c].pc = "refreshFailed",
                         ![c].err = IF updated.code # "" THEN updated.code
                                    ELSE updated.name]
  /\ cachedTokens' = RefreshRejected(cachedTokens)
  /\ UNCHANGED <<file, encryptionKey, refreshBufferSec, now, ticks,
                 initResult, reads, warnings, loaded, returned, storeOut, fnIn, fnOut, writer, req, idCall, client, twin>>

\* the identity call of task c resolves: refresh() caches the new pair and
\* writes it to the store
RefreshSucceeds(c) ==
  /\ calls[c].pc = "awaitRefresh"
  /\ \E outcome \in RefreshOutcomes, iv \in Nonces, created \in CreateModes :
       LET updated == refreshIdToken(outcome, now)
           applied == RefreshApply(cachedTokens, calls[c].rt, updated)
       IN /\ updated.ok
          /\ cachedTokens' = applied.cachedTokens
          /\ file' = TokenStoreWrite(file, applied.written, encryptionKey, iv, created)
          /\ calls' = [calls EXCEPT ![c].pc = "refreshDone",
                         ![c].wrote = applied.written,
                         ![c].resp = [idToken |-> updated.idToken,
                                      expiresAt |-> updated.expiresAt]]
  /\ UNCHANGED <<encryptionKey, refreshBufferSec, now, ticks, initResult, reads,
                 warnings, loaded, returned, storeOut, fnIn, fnOut, writer, req, idCall, client, twin>>

\* as RefreshSucceeds, but TokenStore.write throws: the cache already holds
\* the new pair and refresh() rejects with the file system's error
RefreshWriteFails(c) ==
  /\ calls[c].pc = "awaitRefresh"
  /\ \E outcome \in RefreshOutcomes, errno \in WriteFailures :
       LET updated == refreshIdToken(outcome, now)
           applied == RefreshApply(cachedTokens, calls[c].rt, updated)
       IN /\ updated.ok
          /\ cachedTokens' = applied.cachedTokens
          /\ calls' = [calls EXCEPT ![c].pc = "refreshFailed", ![c].err = errno,
                         ![c].wrote = applied.written,
                         ![c].resp = [idToken |-> updated.idToken,
                                      expiresAt |-> updated.expiresAt]]
  /\ UNCHANGED <<file, encryptionKey, refreshBufferSec, now, ticks, initResult,
                 reads, warnings, loaded, returned, storeOut, fnIn, fnOut, writer, req, idCall, client, twin>>

\* getValidIdToken() resumes after `await this.refresh()`
GetValidIdTokenReturns(c) ==
  /\ calls[c].pc \in {"refreshDone", "refreshFailed"}
  /\ LET after == AfterRefresh(IF calls[c].pc = "refreshFailed" THEN calls[c].err ELSE "",
                               cachedTokens)
     IN /\ calls' = [calls EXCEPT ![c] = Settled(calls[c], after.pc)]
        /\ returned' = Settlement(c, after.pc, after.result, after.err)
  /\ UNCHANGED <<file, encryptionKey, refreshBufferSec, now, ticks, cachedTokens,
                 initResult, reads, warnings, loaded, storeOut, fnIn, fnOut, writer, req, idCall, client, twin>>

\* the startup refresh rejected: its .catch handler runs (nothing is
\* attached to its success)
StartupRefreshCaught ==
  /\ calls[0].pc = "refreshFailed"
  /\ LET caught == StartupCatch(calls[0].err)
     IN /\ warnings' = warnings + caught.warn
        /\ initResult' = IF caught.raised # "" THEN caught.raised ELSE initResult
  /\ calls' = [calls EXCEPT ![0] = Settled(calls[0], "logged")]
  /\ UNCHANGED <<file, encryptionKey, refreshBufferSec, now, ticks, cachedTokens,
                 reads, loaded, returned, storeOut, fnIn, fnOut, writer, req, idCall, client, twin>>

\* time passes
Tick ==
  /\ ticks < MaxTicks
  /\ ticks' = ticks + 1
  /\ now' = now + TickMs
  /\ UNCHANGED <<file, encryptionKey, refreshBufferSec, cachedTokens, calls,
                 initResult, reads, warnings, loaded, returned, storeOut, fnIn, fnOut, writer, req, idCall, client, twin>>

NoStoreOut == [done |-> FALSE, of |-> Absent, res |-> ReadThrows("", "", 0)]
\* no write has been made on its own; pair and bytes are what the write was
\* given and what it hands to writeFileSync, before the entry it found
NoWriter == [pc |-> "none", pair |-> Null, bytes |-> Garbage, before |-> Absent]
\* no request has been made
NoReq == [pc |-> "none"]
\* no identity call has been made
NoIdCall == [pc |-> "none"]
\* no HttpClient has been constructed
NoClient == [pc |-> "none"]
NoTwin == [pc |-> "none"]
NoArgs == [expiresAt |-> 0, nowMs |-> 0, bufferSec |-> 0]
NoResult == [done |-> FALSE, value |-> FALSE]

\* The token file is absent or was written by TokenStore.write under the
\* configured key (the sign-in command does so); nothing has run yet.
Init ==
  /\ encryptionKey \in Keys
  /\ refreshBufferSec \in BufferSecs
  /\ file \in {Absent} \cup
       {TokenStoreWrite(Absent, pair, encryptionKey, "iv0", Mode600) : pair \in InitPairs}
  /\ now = 0
  /\ ticks = 0
  /\ cachedTokens = Null
  /\ calls = [c \in Tasks |-> IdleCall]
  /\ initResult = "none"
  /\ reads = [ok |-> 0, failed |-> 0]
  /\ warnings = 0
  /\ loaded = Null
  /\ returned = NoSettlement
  /\ storeOut = NoStoreOut
  /\ fnIn = NoArgs
  /\ fnOut = NoResult
  /\ writer = NoWriter
  /\ idCall = NoIdCall
  /\ client = NoClient
  /\ twin = NoTwin
  /\ req = NoReq

Next ==
  \/ InitializeThrows
  \/ Initialize
  \/ \E c \in Callers : GetValidIdTokenReadFails(c)
  \/ \E c \in Callers : GetValidIdToken(c)
  \/ \E c \in Tasks : RefreshIdentityFails(c)
  \/ \E c \in Tasks : RefreshSucceeds(c)
  \/ \E c \in Tasks : RefreshWriteFails(c)
  \/ \E c \in Callers : GetValidIdTokenReturns(c)
  \/ StartupRefreshCaught
  \/ Tick

Spec == Init /\ [][Next]_vars

----------------------------------------------------------------------------
(* isExpiringSoon evaluated on its own *)

ExpiryNows == {0, 500, 1000}
ExpiryBuffers == {0, 1, 2}
ExpiryInstants ==
  {NaN} \cup {b + d : b \in {500, 1000, 1500, 2000, 2500, 3000}, d \in {-1, 0, 1}}

ApplyIsExpiringSoon ==
  /\ ~fnOut.done
  /\ fnOut' = [done |-> TRUE,
               value |-> isExpiringSoon(AuthTokens("id", "r", fnIn.expiresAt),
                                        fnIn.nowMs, fnIn.bufferSec)]
  /\ UNCHANGED <<fnIn, file, encryptionKey, storeOut, writer, req, idCall, client, twin, authVars>>

AuthQuiet ==
  /\ refreshBufferSec = 0
  /\ now = 0
  /\ ticks = 0
  /\ cachedTokens = Null
  /\ calls = [c \in Tasks |-> IdleCall]
  /\ initResult = "none"
  /\ reads = [ok |-> 0, failed |-> 0]
  /\ warnings = 0
  /\ loaded = Null
  /\ returned = NoSettlement

InitExpiry ==
  /\ fnIn \in [expiresAt : ExpiryInstants, nowMs : ExpiryNows, bufferSec : ExpiryBuffers]
  /\ fnOut = NoResult
  /\ writer = NoWriter
  /\ idCall = NoIdCall
  /\ client = NoClient
  /\ twin = NoTwin
  /\ req = NoReq
  /\ file = Absent
  /\ encryptionKey = NoKey
  /\ storeOut = NoStoreOut
  /\ AuthQuiet

NextExpiry == ApplyIsExpiringSoon

SpecExpiry == InitExpiry /\ [][NextExpiry]_vars

----------------------------------------------------------------------------
(* TokenStore used on its own *)

StoreKeys == {NoKey, "k1", "k2"}
StorePairs == {AuthTokens("id1", "r1", 1000), AuthTokens("id2", "r2", NaN)}
StoreNonces == {"iv1", "iv2"}

\* an envelope of a later format: as written by encryptAesGcm, but version 2
EnvelopeV2(pair, key, iv) ==
  [encryptAesGcm(JsonStringify(pair), key, iv) EXCEPT !.v = 2]

\* an envelope whose tag or ciphertext was replaced by that of another one
\* made with the same key and nonce
TamperedEnvelopes ==
  LET e1 == encryptAesGcm(JsonStringify(AuthTokens("id1", "r1", 1000)), "k1", "iv0")
      e2 == encryptAesGcm(JsonStringify(AuthTokens("id2", "r2", NaN)), "k1", "iv0")
  IN {[e1 EXCEPT !.tag = e2.tag], [e1 EXCEPT !.ciphertext = e2.ciphertext]}

\* what may be found at the token path
StoreFiles ==
  {Absent, [kind |-> "dir", mode |-> Mode600, data |-> [t |-> "none"]]}
    \cup {[kind |-> k, mode |-> m, data |-> d] :
            k \in {"file", "symlink"}, m \in {Mode600, Mode644},
            d \in {Garbage}
                    \cup {WriteBytes(pair, key, "iv0") : pair \in StorePairs, key \in StoreKeys}
                    \cup {JsonStringify(EnvelopeV2(pair, "k1", "iv0")) : pair \in StorePairs}
                    \cup {JsonStringify(e) : e \in TamperedEnvelopes}}

\* a stand-alone TokenStore.read(); storeOut keeps the entry it found and
\* what it returned or threw
StoreRead ==
  /\ storeOut' = [done |-> TRUE, of |-> file, res |-> TokenStoreRead(file, encryptionKey)]
  /\ file' = FileAfterRead(file)
  /\ UNCHANGED <<encryptionKey, fnIn, fnOut, writer, req, idCall, client, twin, authVars>>

\* a stand-alone TokenStore.write() that succeeds; writer keeps what was
\* written and the entry found, and the reads that count from here on are
\* those made after it
StoreWrite ==
  /\ file.kind # "dir"
  /\ \E pair \in StorePairs, iv \in StoreNonces, created \in CreateModes :
       /\ file' = TokenStoreWrite(file, pair, encryptionKey, iv, created)
       /\ writer' = [pc |-> "done", pair |-> pair,
                     bytes |-> WriteBytes(pair, encryptionKey, iv), before |-> file]
  /\ storeOut' = NoStoreOut
  /\ UNCHANGED <<encryptionKey, fnIn, fnOut, req, idCall, client, twin, authVars>>

InitStore ==
  /\ encryptionKey \in StoreKeys
  /\ file \in StoreFiles
  /\ storeOut = NoStoreOut
  /\ fnIn = NoArgs
  /\ fnOut = NoResult
  /\ writer = NoWriter
  /\ idCall = NoIdCall
  /\ client = NoClient
  /\ twin = NoTwin
  /\ req = NoReq
  /\ AuthQuiet

NextStore == StoreRead \/ StoreWrite

SpecStore == InitStore /\ [][NextStore]_vars

----------------------------------------------------------------------------
(* TokenStore.write in one process while another reads the token file.      *)
(* writeFileSync opens the path for writing, which truncates an existing    *)
(* file, then writes the bytes and closes; chmodSync follows.  A reader in  *)
(* another process runs between any two of these file system calls.         *)

\* writeFileSync opens the file: it is created or truncated
WriterOpens ==
  /\ writer.pc \in {"none", "done"}
  /\ file.kind # "dir"
  /\ \E pair \in StorePairs, iv \in StoreNonces, created \in CreateModes :
       /\ file' = writeFileSync(file, EmptyText, created)
       /\ writer' = [pc |-> "opened", pair |-> pair,
                     bytes |-> WriteBytes(pair, encryptionKey, iv), before |-> file]
  /\ storeOut' = NoStoreOut
  /\ UNCHANGED <<encryptionKey, fnIn, fnOut, req, idCall, client, twin, authVars>>

\* writeFileSync writes the bytes and closes the file
WriterWrites ==
  /\ writer.pc = "opened"
  /\ file' = [file EXCEPT !.data = writer.bytes]
  /\ writer' = [writer EXCEPT !.pc = "written"]
  /\ UNCHANGED <<encryptionKey, storeOut, fnIn, fnOut, req, idCall, client, twin, authVars>>

\* chmodSync(path, 0o600): write() returns
WriterChmods ==
  /\ writer.pc = "written"
  /\ file' = chmodSync(file, Mode600)
  /\ writer' = [writer EXCEPT !.pc = "done"]
  /\ UNCHANGED <<encryptionKey, storeOut, fnIn, fnOut, req, idCall, client, twin, authVars>>

NextStoreRace == StoreRead \/ WriterOpens \/ WriterWrites \/ WriterChmods

SpecStoreRace == InitStore /\ [][NextStoreRace]_vars

----------------------------------------------------------------------------
(* HTTP errors and retry classification *)

mapHttpStatusToErrorType_Wide(status) ==
  IF status = 401 \/ status = 403 THEN "UNAUTHENTICATED"
  ELSE IF status = 404 THEN "NOT_FOUND"
  ELSE IF status = 400 THEN "INVALID_ARGUMENT"
  ELSE IF status = 429 THEN "RESOURCE_EXHAUSTED"
  ELSE IF status >= 500 /\ status <= 600 THEN "UNAVAILABLE"
  ELSE "UNKNOWN"

mapHttpStatusToErrorType(status) ==
  IF status = 401 \/ status = 403 THEN "UNAUTHENTICATED"
  ELSE IF status = 404 THEN "NOT_FOUND"
  ELSE IF status = 400 THEN "INVALID_ARGUMENT"
  ELSE IF status = 429 THEN "RESOURCE_EXHAUSTED"
  ELSE IF status >= 500 /\ status < 600 THEN "UNAVAILABLE"
  ELSE "UNKNOWN"

\* createHttpError: the HttpError made of a response that is not ok
createHttpError(status) ==
  [name |-> "HttpError", type |-> mapHttpStatusToErrorType(status), status |-> status]

\* an Error that is no HttpError and has no status property
PlainError(name) == [name |-> name, type |-> "", status |-> Missing]

isRetriableError(status) == status >= 500 /\ status < 600

hasStatusProperty(error) == error.status # Missing

isRetriableErrorObject_AnyStatus(error) ==
  error.name = "HttpError" \/ hasStatusProperty(error)

isRetriableErrorObject(error) ==
  IF error.name = "HttpError" THEN isRetriableError(error.status)
  ELSE IF hasStatusProperty(error) THEN isRetriableError(error.status)
  ELSE FALSE

isIdempotentMethod_IgnoreCase(method) ==
  method \in {"GET", "get", "DELETE", "delete"}

isIdempotentMethod(method) == method = "GET" \/ method = "DELETE"

\* whether withRetry may make another attempt for this method after this
\* error: its guard on the method and its shouldRetry
RetryEligible(method, error) ==
  isIdempotentMethod(method) /\ isRetriableErrorObject(error)

RetryDecision_OffByOne(method, attempt, maxAttempts, error) ==
  IF ~isIdempotentMethod(method) THEN "throw"
  ELSE IF attempt + 1 >= maxAttempts \/ ~isRetriableErrorObject(error) THEN "throw"
  ELSE "sleep"

\* what withRetry does with the error of attempt number `attempt`
RetryDecision(method, attempt, maxAttempts, error) ==
  IF ~isIdempotentMethod(method) THEN "throw"
  ELSE IF attempt = maxAttempts \/ ~isRetriableErrorObject(error) THEN "throw"
  ELSE "sleep"

Methods == {"GET", "DELETE", "POST", "PUT", "PATCH", "get", "delete"}

\* DEFAULT_RETRY_CONFIG; jitterFactor is held in tenths (0.1 is 1)
DefaultMaxAttempts == 3
DefaultInitialDelayMs == 1000
DefaultMaxDelayMs == 10000
DefaultJitterTenths == 1
DEFAULT_RETRY_CONFIG ==
  [maxAttempts |-> DefaultMaxAttempts, initialDelayMs |-> DefaultInitialDelayMs,
   maxDelayMs |-> DefaultMaxDelayMs, jitterTenths |-> DefaultJitterTenths]

\* createRetryConfig: the defaults, each replaced by the override given for
\* it (Missing: none given); nothing is validated
createRetryConfig(overrides) ==
  [k \in DOMAIN DEFAULT_RETRY_CONFIG |->
     IF overrides[k] = Missing THEN DEFAULT_RETRY_CONFIG[k] ELSE overrides[k]]

NoOverrides == [k \in DOMAIN DEFAULT_RETRY_CONFIG |-> Missing]

----------------------------------------------------------------------------
(* The two classifications evaluated on their own *)

ClassifyStatuses ==
  {0, 199, 200, 204, 301, 399, 400, 401, 402, 403, 404, 405, 418, 428, 429, 430,
   499, 500, 501, 503, 599, 600, 601}

NoClassified == [typed |-> FALSE, type |-> "", evals |-> 0, retry |-> FALSE, same |-> TRUE]

ApplyMapHttpStatus ==
  /\ ~fnOut.typed
  /\ fnOut' = [fnOut EXCEPT !.typed = TRUE,
                            !.type = mapHttpStatusToErrorType(fnIn.status)]
  /\ UNCHANGED <<fnIn, file, encryptionKey, storeOut, writer, req, idCall, client, twin, authVars>>

\* the retry classification of an HttpError of the given status, evaluated
\* once and then once more
ApplyRetryEligible ==
  /\ fnOut.evals < 2
  /\ LET retry == RetryEligible(fnIn.method, createHttpError(fnIn.status))
     IN fnOut' = [fnOut EXCEPT !.evals = @ + 1,
                               !.retry = retry,
                               !.same = (fnOut.evals = 0 \/ retry = fnOut.retry)]
  /\ UNCHANGED <<fnIn, file, encryptionKey, storeOut, writer, req, idCall, client, twin, authVars>>

InitClassify ==
  /\ fnIn \in [method : Methods, status : ClassifyStatuses]
  /\ fnOut = NoClassified
  /\ file = Absent
  /\ encryptionKey = NoKey
  /\ storeOut = NoStoreOut
  /\ writer = NoWriter
  /\ idCall = NoIdCall
  /\ client = NoClient
  /\ twin = NoTwin
  /\ req = NoReq
  /\ AuthQuiet

NextClassify == ApplyMapHttpStatus \/ ApplyRetryEligible

SpecClassify == InitClassify /\ [][NextClassify]_vars

----------------------------------------------------------------------------
(* calculateRetryDelay.  Delays before jitter are whole milliseconds;       *)
(* jitterFactor is held in tenths and Math.random() as a draw out of        *)
(* DrawDen equal steps of [0, 1), so the jitter and the delay after jitter  *)
(* are exact in hundredths of a millisecond.                                *)

RETRY_BACKOFF_BASE == 2
DrawDen == 10
\* the draw that is Math.random() = 0.5
DrawMid == 5
HundredthsPerMs == 100

RECURSIVE Pow(_, _)
\* base ** e for a whole e >= 0
Pow(base, e) == IF e = 0 THEN 1 ELSE base * Pow(base, e - 1)

exponentialDelay_OffByOne(attempt, config) ==
  config.initialDelayMs * Pow(RETRY_BACKOFF_BASE, attempt)

\* initialDelayMs * RETRY_BACKOFF_BASE ** (attempt - 1)
exponentialDelay(attempt, config) ==
  config.initialDelayMs * Pow(RETRY_BACKOFF_BASE, attempt - 1)

FloorAtZero_None(delay) == delay

\* Math.max(0, cappedDelay + jitter)
FloorAtZero(delay) == MathMax(0, delay)

\* calculateRetryDelay, with its intermediate values; jitter and delay are
\* in hundredths of a millisecond
calculateRetryDelay(attempt, config, draw) ==
  LET cappedDelay == MathMin(exponentialDelay(attempt, config), config.maxDelayMs)
      jitter == cappedDelay * config.jitterTenths * (draw - DrawMid)
  IN [cappedDelay |-> cappedDelay,
      jitter |-> jitter,
      delay |-> FloorAtZero(cappedDelay * HundredthsPerMs + jitter)]

\* Math.random() from 0 to just below 1
Draws == {0, 3, DrawMid, DrawDen - 1}

----------------------------------------------------------------------------
(* withRetry running the operation of HttpClient.request *)

\* the largest maxAttempts of a retry policy in the model
MaxPolicyAttempts == 3

\* What the network does to one attempt: a response arrives, the attempt's
\* timeout aborts the fetch, or the fetch fails in transport.
HttpResponse(status) == [t |-> "response", status |-> status]
AttemptOutcomes ==
  {HttpResponse(st) : st \in {200, 404, 429, 500, 503}}
    \cup {[t |-> "timeout", status |-> 0], [t |-> "network", status |-> 0]}

NoError == [name |-> "", type |-> "", status |-> Missing]

\* one run of the operation closure of HttpClient.request: the response it
\* resolves with or the error it throws
operation(outcome) ==
  IF outcome.t = "response"
  THEN IF outcome.status >= 200 /\ outcome.status <= 299
       THEN [ok |-> TRUE, status |-> outcome.status, error |-> NoError]
       ELSE [ok |-> FALSE, status |-> 0, error |-> createHttpError(outcome.status)]
  ELSE IF outcome.t = "timeout"
  THEN [ok |-> FALSE, status |-> 0, error |-> PlainError("Error")]
  ELSE [ok |-> FALSE, status |-> 0, error |-> PlainError("TypeError")]

\* the overrides a retry policy is built from: none, a maxAttempts, a
\* maxDelayMs
RetryOverrides ==
  {[NoOverrides EXCEPT !.maxAttempts = m, !.maxDelayMs = d] :
     m \in {Missing} \cup (0..MaxPolicyAttempts), d \in {Missing, 1500}}

\* requestTimeoutMs of the configuration, and the timeout a request may give
\* in its options
DefaultRequestTimeoutMs == 10000
TimeoutOptions == {Missing, 0, 500}

\* `timeout = this.config.timeoutMs` in the destructuring of the options
RequestTimeout(option, timeoutMs) == IF option = Missing THEN timeoutMs ELSE option

\* the abort timer of one call of operation(): pending until it is cleared
\* or fires, attempt the attempt it was set in, ms its duration
NoTimer == [pending |-> FALSE, attempt |-> 0, ms |-> 0]

AttemptTimer_Shared(timer, attempt, ms) ==
  IF timer.attempt = 0 THEN [pending |-> TRUE, attempt |-> attempt, ms |-> ms]
  ELSE [timer EXCEPT !.pending = TRUE]

\* setTimeout(() => controller.abort(), timeout) at the start of operation()
AttemptTimer(timer, attempt, ms) ==
  [pending |-> TRUE, attempt |-> attempt, ms |-> ms]

\* the error withRetry rethrows from its catch clause, errors being those of
\* the attempts made so far: the one just caught
Rethrown_First(errors) == errors[1]

Rethrown(errors) == errors[Len(errors)]

\* withRetry is called and makes its first call of operation(); attempt is
\* the loop variable, calls counts operation(), sleeps counts sleep(),
\* seen lists what the attempts met, timers counts setTimeout(), delay is
\* what the last sleep was given.  With an idempotent method and a
\* maxAttempts below 1 the loop body never runs and the throw after the
\* loop is reached.
Request ==
  /\ req.pc = "none"
  /\ \E method \in Methods, overrides \in RetryOverrides, option \in TimeoutOptions :
       LET config == createRetryConfig(overrides)
           timeout == RequestTimeout(option, DefaultRequestTimeoutMs)
           started == [pc |-> "awaitOperation", method |-> method,
                       maxAttempts |-> config.maxAttempts, config |-> config,
                       attempt |-> 1, calls |-> 1, sleeps |-> 0, seen |-> <<>>,
                       status |-> 0, error |-> NoError,
                       timeout |-> timeout, timers |-> 1,
                       timer |-> AttemptTimer(NoTimer, 1, timeout),
                       delay |-> 0]
       IN req' = IF isIdempotentMethod(method) /\ ~(1 <= config.maxAttempts)
                 THEN [started EXCEPT !.pc = "rejected", !.calls = 0,
                                      !.error = PlainError("Error"),
                                      !.timers = 0, !.timer = NoTimer]
                 ELSE started
  /\ UNCHANGED <<file, encryptionKey, storeOut, fnIn, fnOut, writer, idCall, client, twin, authVars>>

\* the fetch of the attempt resolves with a response: the timer is cleared
\* before the body is read
FetchResolves ==
  /\ req.pc = "awaitOperation"
  /\ req.timer.pending
  /\ req' = [req EXCEPT !.timer.pending = FALSE]
  /\ UNCHANGED <<file, encryptionKey, storeOut, fnIn, fnOut, writer, idCall, client, twin, authVars>>

\* the awaited operation() settles: withRetry returns its result, rethrows
\* its error, or computes the delay and starts the sleep before the next
\* attempt.  The timer is cleared on every path; it can only have fired
\* while it was pending.
OperationSettles ==
  /\ req.pc = "awaitOperation"
  /\ \E outcome \in AttemptOutcomes, draw \in Draws :
       LET r == operation(outcome)
           seen == Append(req.seen, outcome)
           errors == [i \in 1..Len(seen) |-> operation(seen[i]).error]
           settled == [req EXCEPT !.seen = seen, !.timer.pending = FALSE]
       IN /\ outcome.t = "timeout" => req.timer.pending
          /\ IF r.ok
             THEN req' = [settled EXCEPT !.pc = "resolved", !.status = r.status]
             ELSE IF RetryDecision(req.method, req.attempt, req.maxAttempts, r.error)
                       = "throw"
             THEN req' = [settled EXCEPT !.pc = "rejected", !.error = Rethrown(errors)]
             ELSE req' = [settled EXCEPT
                            !.pc = "sleeping", !.sleeps = @ + 1,
                            !.delay = calculateRetryDelay(req.attempt, req.config,
                                                          draw).delay]
  /\ UNCHANGED <<file, encryptionKey, storeOut, fnIn, fnOut, writer, idCall, client, twin, authVars>>

\* the sleep is over: the loop goes round and calls operation() again
SleepElapsed ==
  /\ req.pc = "sleeping"
  /\ req' = [req EXCEPT !.pc = "awaitOperation", !.attempt = @ + 1, !.calls = @ + 1,
                         !.timers = @ + 1,
                         !.timer = AttemptTimer(req.timer, req.attempt + 1, req.timeout)]
  /\ UNCHANGED <<file, encryptionKey, storeOut, fnIn, fnOut, writer, idCall, client, twin, authVars>>

InitRetry ==
  /\ req = NoReq
  /\ fnIn = NoArgs
  /\ fnOut = NoResult
  /\ file = Absent
  /\ encryptionKey = NoKey
  /\ storeOut = NoStoreOut
  /\ writer = NoWriter
  /\ idCall = NoIdCall
  /\ client = NoClient
  /\ twin = NoTwin
  /\ AuthQuiet

NextRetry == Request \/ FetchResolves \/ OperationSettles \/ SleepElapsed

SpecRetry == InitRetry /\ [][NextRetry]_vars

----------------------------------------------------------------------------
(* calculateRetryDelay evaluated on its own, for one attempt number and     *)
(* then for the ones that follow it, as the loop of withRetry goes round    *)

\* the largest attempt number a delay is computed for
MaxAttemptNo == 5

DelayPolicies ==
  {createRetryConfig([NoOverrides EXCEPT !.initialDelayMs = i, !.maxDelayMs = m,
                                         !.jitterTenths = j]) :
     i \in {Missing, -100, 0, 1, 100}, m \in {Missing, 50, 400}, j \in {Missing, 0, 20, 30}}

NoDelay ==
  [done |-> FALSE, value |-> [cappedDelay |-> 0, jitter |-> 0, delay |-> 0],
   hasPrev |-> FALSE, prev |-> [cappedDelay |-> 0, jitter |-> 0, delay |-> 0]]

ApplyCalculateRetryDelay ==
  /\ ~fnOut.done
  /\ fnOut' = [fnOut EXCEPT !.done = TRUE,
                            !.value = calculateRetryDelay(fnIn.attempt, fnIn.config,
                                                          fnIn.draw)]
  /\ UNCHANGED <<fnIn, file, encryptionKey, storeOut, writer, req, idCall, client, twin, authVars>>

\* the delay of the next attempt number under the same policy, with a draw
\* of its own; prev keeps the delay of the attempt before
NextAttemptDelay ==
  /\ fnOut.done
  /\ fnIn.attempt < MaxAttemptNo
  /\ \E draw \in Draws :
       /\ fnIn' = [fnIn EXCEPT !.attempt = @ + 1, !.draw = draw]
       /\ fnOut' = [fnOut EXCEPT !.value = calculateRetryDelay(fnIn.attempt + 1,
                                                              fnIn.config, draw),
                                 !.hasPrev = TRUE,
                                 !.prev = fnOut.value]
  /\ UNCHANGED <<file, encryptionKey, storeOut, writer, req, idCall, client, twin, authVars>>

InitDelay ==
  /\ fnIn \in [attempt : 1..MaxAttemptNo, config : DelayPolicies, draw : Draws]
  /\ fnOut = NoDelay
  /\ file = Absent
  /\ encryptionKey = NoKey
  /\ storeOut = NoStoreOut
  /\ writer = NoWriter
  /\ idCall = NoIdCall
  /\ client = NoClient
  /\ twin = NoTwin
  /\ req = NoReq
  /\ AuthQuiet

NextDelay == ApplyCalculateRetryDelay \/ NextAttemptDelay

SpecDelay == InitDelay /\ [][NextDelay]_vars

----------------------------------------------------------------------------
(* One call of the IdentityClient, in the pieces between its awaits: the    *)
(* fetch under the request timeout, then the read of the body.  The timer   *)
(* is cleared as soon as the fetch has settled.                             *)

IdentityKinds == {"signIn", "refresh"}
IdentityStatuses == {200, 304, 401, 403, 429, 500}
IdentityNows == {1000, 40000}
RetryAfterHeaders ==
  {NoHeader,
   RetryAfter("120", "seconds", TRUE, 120, FALSE, 0),
   RetryAfter("", "invalid", TRUE, 0, FALSE, 0),
   RetryAfter("-5", "invalid", TRUE, -5, FALSE, 0),
   RetryAfter("soon", "invalid", FALSE, 0, FALSE, 0),
   RetryAfter("Thu, 01 Jan 1970 00:00:31 GMT", "date", FALSE, 0, TRUE, 31000)}
IdentityBodies(kind) ==
  {Garbage, FailedRead}
    \cup (IF kind = "signIn" THEN {SignInBody("id1", "r1", 3600)}
          ELSE {RefreshBody("id1", 3600)})

IdentityResult(kind, outcome, nowMs) ==
  IF kind = "signIn" THEN signInWithEmailPassword(outcome, nowMs)
  ELSE refreshIdToken(outcome, nowMs)

IdentitySettled(call, met, result) ==
  [call EXCEPT !.pc = IF result.ok THEN "resolved" ELSE "rejected",
               !.timer = FALSE, !.met = met, !.result = result]

\* the call starts: the abort timer is set and the fetch is made
IdentityCallStarts ==
  /\ idCall.pc = "none"
  /\ \E kind \in IdentityKinds :
       idCall' = [pc |-> "fetching", kind |-> kind, timer |-> TRUE, aborted |-> FALSE,
                  fetches |-> 1, met |-> "none", status |-> 0, retryAfter |-> NoHeader,
                  nowMs |-> 0, result |-> IdentityOk("", NaN)]
  /\ UNCHANGED <<file, encryptionKey, storeOut, fnIn, fnOut, writer, req, client, twin, authVars>>

\* the fetch rejects for a transport failure
IdentityFetchFails ==
  /\ idCall.pc = "fetching"
  /\ idCall' = IdentitySettled(idCall, "transport",
                               IdentityResult(idCall.kind, FetchThrows(FALSE), 0))
  /\ UNCHANGED <<file, encryptionKey, storeOut, fnIn, fnOut, writer, req, client, twin, authVars>>

\* requestTimeoutMs elapses before the fetch settles: the timer aborts the
\* request and the fetch rejects with an AbortError
IdentityTimeout ==
  /\ idCall.pc = "fetching"
  /\ idCall.timer
  /\ idCall' = [IdentitySettled(idCall, "timeout",
                                IdentityResult(idCall.kind, FetchThrows(TRUE), 0))
                  EXCEPT !.aborted = TRUE]
  /\ UNCHANGED <<file, encryptionKey, storeOut, fnIn, fnOut, writer, req, client, twin, authVars>>

\* the fetch resolves with a response: the timer is cleared; 401, 403 and
\* 429 are thrown at once, otherwise the body is read
IdentityResponse ==
  /\ idCall.pc = "fetching"
  /\ \E status \in IdentityStatuses, header \in RetryAfterHeaders, nowMs \in IdentityNows :
       LET outcome == [Response(status, Garbage) EXCEPT !.retryAfter = header]
           met == [idCall EXCEPT !.status = status, !.retryAfter = header,
                                 !.nowMs = nowMs]
       IN idCall' = IF status \in {401, 403, 429}
                    THEN IdentitySettled(met, "response",
                                         IdentityResult(idCall.kind, outcome, nowMs))
                    ELSE [met EXCEPT !.pc = "readingBody", !.timer = FALSE,
                                     !.met = "response"]
  /\ UNCHANGED <<file, encryptionKey, storeOut, fnIn, fnOut, writer, req, client, twin, authVars>>

\* the read of the body (res.json(), or res.text() of an error response)
\* settles
IdentityBodyRead ==
  /\ idCall.pc = "readingBody"
  /\ \E body \in IdentityBodies(idCall.kind) :
       LET outcome == [Response(idCall.status, body) EXCEPT !.retryAfter = idCall.retryAfter]
       IN idCall' = IdentitySettled(idCall, "response",
                                    IdentityResult(idCall.kind, outcome, idCall.nowMs))
  /\ UNCHANGED <<file, encryptionKey, storeOut, fnIn, fnOut, writer, req, client, twin, authVars>>

InitIdentity ==
  /\ idCall = NoIdCall
  /\ client = NoClient
  /\ twin = NoTwin
  /\ req = NoReq
  /\ fnIn = NoArgs
  /\ fnOut = NoResult
  /\ file = Absent
  /\ encryptionKey = NoKey
  /\ storeOut = NoStoreOut
  /\ writer = NoWriter
  /\ AuthQuiet

NextIdentity ==
  \/ IdentityCallStarts
  \/ IdentityFetchFails
  \/ IdentityTimeout
  \/ IdentityResponse
  \/ IdentityBodyRead

SpecIdentity == InitIdentity /\ [][NextIdentity]_vars

\* The timer, once set, fires unless it is cleared; whether and when the
\* remote side answers, or sends the body, is up to the remote side.
SpecIdentityLive == SpecIdentity /\ WF_vars(IdentityTimeout)

----------------------------------------------------------------------------
(* HttpClient: the headers of a request, their redaction for the log and    *)
(* the cache of the last redaction                                          *)

SENSITIVE_HEADERS == {"authorization", "x-api-key", "cookie", "x-auth-token"}
Redacted == "[REDACTED]"

\* String.prototype.toLowerCase on the header names of the model
toLowerCase(name) ==
  CASE name = "Authorization" -> "authorization"
    [] name = "Cookie" -> "cookie"
    [] name = "X-Auth-Token" -> "x-auth-token"
    [] name = "X-API-KEY" -> "x-api-key"
    [] name = "Content-Type" -> "content-type"
    [] name = "User-Agent" -> "user-agent"
    [] name = "Custom-Header" -> "custom-header"
    [] OTHER -> name

IsSensitive_CaseSensitive(key) == key \in SENSITIVE_HEADERS

\* SENSITIVE_HEADERS.has(key.toLowerCase())
IsSensitive(key) == toLowerCase(key) \in SENSITIVE_HEADERS

redactHeaders(headers) ==
  [key \in DOMAIN headers |-> IF IsSensitive(key) THEN Redacted ELSE headers[key]]

\* headersEqual: b[key] of a name b lacks is undefined, equal to no value
headersEqual(a, b) ==
  /\ Cardinality(DOMAIN a) = Cardinality(DOMAIN b)
  /\ \A key \in DOMAIN a : key \in DOMAIN b /\ a[key] = b[key]

\* the headers HttpClient.request sends: its defaults, Authorization when a
\* token is set, and the headers of the options (a set of <<name, value>>)
\* over them
requestHeaders(apiKey, authToken, headers) ==
  LET defaults == {<<"x-api-key", apiKey>>, <<"Content-Type", "application/json">>,
                   <<"User-Agent", "tweek-mcp/1.0.0">>}
                    \cup (IF authToken # "" THEN {<<"Authorization", "Bearer " \o authToken>>}
                          ELSE {})
      Given(key) == \E h \in headers : h[1] = key
  IN [key \in {h[1] : h \in defaults \cup headers} |->
        IF Given(key) THEN (CHOOSE h \in headers : h[1] = key)[2]
        ELSE (CHOOSE h \in defaults : h[1] = key)[2]]

NoLogEntry == [message |-> "", headers |-> [key \in {"x-api-key"} |-> Redacted]]

\* the HttpClient after its constructor: no token, nothing cached (hasCache
\* is FALSE while lastHeaders and cachedRedactedHeaders are undefined),
\* nothing logged; hits counts the calls the cache answered
NewHttpClient(apiKey) ==
  [pc |-> "ready", apiKey |-> apiKey, authToken |-> "",
   hasCache |-> FALSE,
   lastHeaders |-> [key \in {"x-api-key"} |-> apiKey],
   cachedRedactedHeaders |-> [key \in {"x-api-key"} |-> Redacted],
   requests |-> 0, hits |-> 0, log |-> NoLogEntry]

\* getRedactedHeaders: the client with its cache as the call leaves it;
\* cachedRedactedHeaders is what the call returns
getRedactedHeaders(http, headers) ==
  IF http.hasCache /\ headersEqual(headers, http.lastHeaders)
  THEN [http EXCEPT !.hits = @ + 1]
  ELSE [http EXCEPT !.hasCache = TRUE, !.lastHeaders = headers,
                    !.cachedRedactedHeaders = redactHeaders(headers)]

setAuthorizationHeader(http, token) == [http EXCEPT !.authToken = token]

\* HttpClient.request up to the call of withRetry: the headers are built
\* and the request is logged with their redaction
RequestLogged(http, method, path, headers) ==
  LET sentHeaders == requestHeaders(http.apiKey, http.authToken, headers)
      after == getRedactedHeaders(http, sentHeaders)
  IN [after EXCEPT !.requests = @ + 1,
                   !.log = [message |-> "HTTP " \o method \o " " \o path,
                            headers |-> after.cachedRedactedHeaders]]

----------------------------------------------------------------------------
(* Two HttpClients given the same sequence of requests, which differ only   *)
(* in the values of sensitive headers                                       *)

\* the largest number of requests made on one client
MaxRequests == 3

Secrets == {"s1", "s2"}
HeaderShapes == 1..6
\* the headers of the options of a request, carrying the secret
OptionHeaders(shape, secret) ==
  CASE shape = 1 -> {}
    [] shape = 2 -> {<<"Custom-Header", "visible">>}
    [] shape = 3 -> {<<"Authorization", secret>>, <<"Custom-Header", "visible">>}
    [] shape = 4 -> {<<"authorization", secret>>}
    [] shape = 5 -> {<<"Cookie", secret>>, <<"X-Auth-Token", secret>>}
    [] OTHER -> {<<"X-API-KEY", secret>>, <<"Custom-Header", "other">>}

LogSetAuthorizationHeader ==
  /\ client.requests < MaxRequests
  /\ \E token \in Secrets, twinToken \in Secrets :
       /\ client' = setAuthorizationHeader(client, token)
       /\ twin' = setAuthorizationHeader(twin, twinToken)
  /\ UNCHANGED <<file, encryptionKey, storeOut, fnIn, fnOut, writer, req, idCall, authVars>>

LogRequest ==
  /\ client.requests < MaxRequests
  /\ \E method \in {"GET", "POST"}, shape \in HeaderShapes,
        secret \in Secrets, twinSecret \in Secrets :
       /\ client' = RequestLogged(client, method, "/calendars",
                                  OptionHeaders(shape, secret))
       /\ twin' = RequestLogged(twin, method, "/calendars",
                                OptionHeaders(shape, twinSecret))
  /\ UNCHANGED <<file, encryptionKey, storeOut, fnIn, fnOut, writer, req, idCall, authVars>>

InitLog ==
  /\ client \in {NewHttpClient(apiKey) : apiKey \in Secrets}
  /\ twin \in {NewHttpClient(apiKey) : apiKey \in Secrets}
  /\ idCall = NoIdCall
  /\ req = NoReq
  /\ fnIn = NoArgs
  /\ fnOut = NoResult
  /\ file = Absent
  /\ encryptionKey = NoKey
  /\ storeOut = NoStoreOut
  /\ writer = NoWriter
  /\ AuthQuiet

NextLog == LogSetAuthorizationHeader \/ LogRequest

SpecLog == InitLog /\ [][NextLog]_vars

----------------------------------------------------------------------------
(* TweekClient: operations that share one HttpClient.  Each obtains a token *)
(* from AuthManager.getValidIdToken, sets it on the client and makes its    *)
(* request, whose attempts all send the headers built for the request.      *)

\* the number of operations running at once
MaxOps == 2
Ops == 1..MaxOps

\* What getValidIdToken meets: the cached pair is fresh, or a refresh is
\* needed and the identity service answers it
TokenOutcomes ==
  {[refresh |-> FALSE, answer |-> Response(200, Garbage)]}
    \cup {[refresh |-> TRUE, answer |-> a] :
            a \in {Response(200, RefreshBody("n1", 3600)), Response(200, RefreshBody("n2", 3600)),
                   Response(401, Garbage), Response(403, Garbage), Response(429, Garbage),
                   FetchThrows(TRUE)}}

\* getValidIdToken as the operation sees it: the cached idToken, or what
\* refresh() leaves behind
getValidIdToken(outcome) ==
  IF ~outcome.refresh THEN AfterRefresh("", AuthTokens("t0", "r1", 3600000))
  ELSE LET updated == refreshIdToken(outcome.answer, 0)
       IN AfterRefresh(IF updated.ok THEN "" ELSE updated.code,
                       AuthTokens(updated.idToken, "r1", updated.expiresAt))

\* the catch clause of every TweekClient operation: an HttpError passes,
\* anything else becomes HttpError(UNKNOWN, 500)
OperationCatch(error) ==
  IF error.name = "HttpError" THEN error
  ELSE [name |-> "HttpError", type |-> "UNKNOWN", status |-> 500]

AttemptAuthorization_Live(sentHeaders, authToken) == "Bearer " \o authToken

\* the Authorization header an attempt puts on the wire: that of the
\* headers built when request() was called
AttemptAuthorization(sentHeaders, authToken) == sentHeaders["Authorization"]

IdleOp ==
  [pc |-> "idle", method |-> "GET", refreshed |-> FALSE, refreshStatus |-> 0,
   idToken |-> "", headers |-> [key \in {"x-api-key"} |-> ""], sent |-> <<>>,
   error |-> NoError]

NewTweekClient(apiKey) ==
  [httpClient |-> NewHttpClient(apiKey), ops |-> [o \in Ops |-> IdleOp]]

\* an operation is called and awaits getValidIdToken
OperationStarts(o) ==
  /\ client.ops[o].pc = "idle"
  /\ \E method \in {"GET", "POST"} :
       client' = [client EXCEPT !.ops[o].pc = "awaitToken", !.ops[o].method = method]
  /\ UNCHANGED <<file, encryptionKey, storeOut, fnIn, fnOut, writer, req, idCall, twin, authVars>>

\* getValidIdToken settles.  Resolved: the token is set on the client and
\* the request is made, which builds and logs its headers and sends the
\* first attempt.  Rejected: the catch clause turns the error into the one
\* the operation fails with.
TokenSettles(o) ==
  /\ client.ops[o].pc = "awaitToken"
  /\ \E outcome \in TokenOutcomes :
       LET got == getValidIdToken(outcome)
           op == [client.ops[o] EXCEPT
                    !.refreshed = outcome.refresh,
                    !.refreshStatus = IF outcome.refresh /\ outcome.answer.t = "response"
                                      THEN outcome.answer.status ELSE 0]
           withToken == setAuthorizationHeader(client.httpClient, got.result)
           sentHeaders == requestHeaders(withToken.apiKey, withToken.authToken, {})
       IN client' =
            IF got.pc = "resolved"
            THEN [httpClient |-> RequestLogged(withToken, op.method, "/calendars", {}),
                  ops |-> [client.ops EXCEPT
                             ![o] = [op EXCEPT
                                       !.pc = "awaitResponse",
                                       !.idToken = got.result,
                                       !.headers = sentHeaders,
                                       !.sent = <<AttemptAuthorization(
                                                    sentHeaders, withToken.authToken)>>]]]
            ELSE [client EXCEPT
                    !.ops[o] = [op EXCEPT
                                  !.pc = "rejected",
                                  !.error = OperationCatch(PlainError("AppError"))]]
  /\ UNCHANGED <<file, encryptionKey, storeOut, fnIn, fnOut, writer, req, idCall, twin, authVars>>

\* an attempt of the request settles: the operation returns, fails with
\* what its catch clause makes of the error, or withRetry sleeps and sends
\* the next attempt
AttemptSettles(o) ==
  /\ client.ops[o].pc = "awaitResponse"
  /\ \E outcome \in AttemptOutcomes :
       LET op == client.ops[o]
           r == operation(outcome)
       IN client' =
            IF r.ok THEN [client EXCEPT !.ops[o].pc = "resolved"]
            ELSE IF RetryDecision(op.method, Len(op.sent), DefaultMaxAttempts, r.error)
                      = "throw"
            THEN [client EXCEPT !.ops[o].pc = "rejected",
                                !.ops[o].error = OperationCatch(r.error)]
            ELSE [client EXCEPT
                    !.ops[o].sent = Append(@, AttemptAuthorization(
                                                op.headers, client.httpClient.authToken))]
  /\ UNCHANGED <<file, encryptionKey, storeOut, fnIn, fnOut, writer, req, idCall, twin, authVars>>

InitClient ==
  /\ client = NewTweekClient("key")
  /\ twin = NoTwin
  /\ idCall = NoIdCall
  /\ req = NoReq
  /\ fnIn = NoArgs
  /\ fnOut = NoResult
  /\ file = Absent
  /\ encryptionKey = NoKey
  /\ storeOut = NoStoreOut
  /\ writer = NoWriter
  /\ AuthQuiet

NextClient ==
  \/ \E o \in Ops : OperationStarts(o)
  \/ \E o \in Ops : TokenSettles(o)
  \/ \E o \in Ops : AttemptSettles(o)

SpecClient == InitClient /\ [][NextClient]_vars

----------------------------------------------------------------------------
(* Claims about the AuthManager, checked under Spec *)

\* task c settles in this step
Settles(c) ==
  /\ calls[c].pc \in {"idle", "refreshDone", "refreshFailed"}
  /\ calls'[c].pc \in {"resolved", "rejected"}

\* C1: per AuthManager at most one IdentityClient.refreshIdToken call is
\* outstanding at any time; a call that arrives during a refresh waits on it.
C1_SingleInFlightRefresh == Cardinality(Outstanding(calls)) <= 1

\* C2: a getValidIdToken call that finds the pair expiring soon while no
\* other refresh is outstanding, and whose identity exchange succeeds, makes
\* exactly one refreshIdToken call and resolves with the idToken of that
\* refresh's response.
C2_OneRefreshOwnToken ==
  [][\A c \in Callers :
       (calls[c].pc = "refreshDone" /\ calls[c].alone /\ Settles(c) /\ calls'[c].pc = "resolved")
         => /\ calls[c].nRefresh = 1
            /\ returned'.result = calls[c].resp.idToken]_vars

\* C4: whenever getValidIdToken resolves after performing a refresh,
\* TokenStore.write has already been called, and has returned, with the
\* refreshed pair: the response's idToken and expiresAt and the original
\* refreshToken.
C4_PersistBeforeReturn ==
  [][\A c \in Callers :
       (calls[c].nRefresh > 0 /\ Settles(c) /\ calls'[c].pc = "resolved")
         => /\ calls[c].pc = "refreshDone"
            /\ calls[c].resp # Null
            /\ calls[c].wrote = AuthTokens(calls[c].resp.idToken, loaded.refreshToken,
                                           calls[c].resp.expiresAt)]_vars

C4_Witness == \E c \in Callers : calls[c].pc = "resolved" /\ calls[c].nRefresh = 1

\* C5: across any sequence of refreshes, the refreshToken in the cache, in
\* every pair passed to TokenStore.write and in the stored file equals the
\* refreshToken originally loaded from the store.
C5_RefreshTokenKept ==
  /\ loaded = Null => cachedTokens = Null
  /\ loaded # Null =>
       /\ cachedTokens.refreshToken = loaded.refreshToken
       /\ \A c \in Tasks :
            calls[c].wrote # Null => calls[c].wrote.refreshToken = loaded.refreshToken
       /\ LET r == TokenStoreRead(file, encryptionKey)
          IN r.ok => r.tokens.refreshToken = loaded.refreshToken

\* a second refresh has just written its pair after a first one completed
C5_Witness ==
  \E c, d \in Tasks :
    /\ c # d
    /\ calls[c].nRefresh = 1 /\ calls[c].pc \in {"resolved", "refreshDone"}
    /\ calls[d].pc = "refreshDone" /\ calls[d].wrote = cachedTokens
    /\ cachedTokens.idToken # loaded.idToken

\* C6: a failed startup refresh (identity failure or persistence failure)
\* is logged and never reaches the caller of initialize(): initialize()
\* throws only what its own TokenStore.read threw, before any refresh.
C6_StartupFailureOnlyLogged ==
  /\ calls[0].pc \in {"awaitRefresh", "refreshDone", "refreshFailed", "logged"}
       => initResult = "returned"
  /\ calls[0].pc = "logged" => warnings = 1
  /\ calls[0].pc # "logged" => warnings = 0

C6_Witness == calls[0].pc = "logged" /\ initResult = "returned"

\* C7: when getValidIdToken needs a refresh and the refresh fails, the call
\* rejects with that failure and never resolves with the stale token; a
\* failed TokenStore.read reaches the caller as well.
C7_RefreshFailurePropagates ==
  [][/\ \A c \in Callers :
          (calls[c].pc = "refreshFailed" /\ calls'[c].pc # "refreshFailed")
            => returned' = Settlement(c, "rejected", "", calls[c].err)
     /\ reads'.failed > reads.failed
          => \/ initResult' \notin {"none", "returned"}
             \/ returned' # returned /\ returned'.pc = "rejected" /\ returned'.err # ""]_vars

C7_Witness ==
  \E c \in Callers :
    /\ calls[c].pc = "rejected" /\ calls[c].nRefresh = 1
    /\ returned = Settlement(c, "rejected", "", returned.err)

\* C8: when the cached pair is not expiring soon, getValidIdToken returns
\* the cached idToken without starting a refresh and without writing the
\* store, and without reading it unless the cache was empty; no read
\* happens while the cache is populated, so at most one read succeeds.
C8_CachedPathTouchesNothing ==
  [][/\ \A c \in Callers :
          (calls[c].pc = "idle" /\ calls'[c].pc = "resolved")
            => /\ returned' = Settlement(c, "resolved", cachedTokens'.idToken, "")
               /\ Outstanding(calls') = Outstanding(calls)
               /\ \A d \in Tasks : calls'[d].nRefresh = calls[d].nRefresh
               /\ file'.data = file.data
               /\ cachedTokens # Null => cachedTokens' = cachedTokens
     /\ cachedTokens # Null => reads' = reads
     /\ reads'.ok <= 1]_vars

\* two calls took the cached path, the second without loading
C8_Witness ==
  /\ \A c \in Callers : calls[c].pc = "resolved" /\ calls[c].nRefresh = 0
  /\ reads.ok = 1

\* C9: whenever getValidIdToken resolves, it returns the idToken of the
\* cached pair, and that pair's expiresAt is later than the current time.
C9_ReturnedTokenValid ==
  [][\A c \in Callers :
       (Settles(c) /\ calls'[c].pc = "resolved")
         => /\ returned'.result = cachedTokens'.idToken
            /\ IsNumber(cachedTokens'.expiresAt)
            /\ cachedTokens'.expiresAt > now']_vars

----------------------------------------------------------------------------
(* Claim about isExpiringSoon, checked under SpecExpiry *)

\* C3: isExpiringSoon is true exactly when expiresAt <= now + bufferSeconds
\* * 1000: true at the boundary, false one millisecond later (and false for
\* an expiresAt that is no number).
C3_ExpiringSoonBoundaryInclusive ==
  fnOut.done =>
    (fnOut.value <=> /\ fnIn.expiresAt # NaN
                     /\ fnIn.expiresAt <= fnIn.nowMs + fnIn.bufferSec * 1000)

\* the boundary itself has been evaluated, with a buffer that matters
C3_Witness ==
  /\ fnOut.done /\ fnOut.value
  /\ fnIn.bufferSec > 0
  /\ fnIn.expiresAt = fnIn.nowMs + fnIn.bufferSec * 1000

----------------------------------------------------------------------------
(* Claim about TokenStore.read, checked under SpecStore *)

\* the bytes are a JSON envelope whose version is not 1
UnknownEnvelopeVersion(f) ==
  /\ f.kind \in {"file", "symlink"}
  /\ f.data.t = "json"
  /\ "v" \in DOMAIN f.data.value
  /\ f.data.value.v # 1

\* C10: with an encryption key configured, TokenStore.read of a token file
\* whose envelope version is not the known version fails with
\* TOKENS_FORMAT_UNSUPPORTED as the error the caller sees, without attempting
\* decryption.
C10_UnknownVersionUnsupported ==
  (storeOut.done /\ HasKey(encryptionKey) /\ UnknownEnvelopeVersion(storeOut.of))
    => /\ ~storeOut.res.ok
       /\ storeOut.res.code = "TOKENS_FORMAT_UNSUPPORTED"
       /\ storeOut.res.decrypts = 0

\* C11: TokenStore.read of a token path that is a symlink, a directory or
\* another non-regular entry fails with TOKENS_PATH_INVALID and returns
\* nothing read through that path.
C11_NonRegularPathInvalid ==
  (storeOut.done /\ storeOut.of.kind \in {"symlink", "dir"})
    => /\ ~storeOut.res.ok
       /\ storeOut.res.code = "TOKENS_PATH_INVALID"

\* what read() can fail with while decoding, parsing or decrypting
DecodeFailures == {"SyntaxError", "AuthTagMismatch"}

\* C12: TokenStore.read fails with TOKENS_NOT_FOUND when nothing exists at
\* the token path, and with INTERNAL on every decode, parse or crypto
\* failure; a file that is not valid JSON is such a failure.
C12_NotFoundElseInternal ==
  storeOut.done =>
    /\ storeOut.of.kind = "absent"
         => (~storeOut.res.ok /\ storeOut.res.code = "TOKENS_NOT_FOUND")
    /\ (~storeOut.res.ok /\ storeOut.res.cause \in DecodeFailures)
         => storeOut.res.code = "INTERNAL"
    /\ (storeOut.of.kind \in {"file", "symlink"} /\ storeOut.of.data = Garbage)
         => (~storeOut.res.ok /\ storeOut.res.code = "INTERNAL")

\* a regular file that is not valid JSON has been read
C12_Witness ==
  /\ storeOut.done
  /\ storeOut.of.kind = "file" /\ storeOut.of.data = Garbage
  /\ storeOut.res.code = "INTERNAL" /\ storeOut.res.cause = "SyntaxError"

\* the bytes are a version 1 envelope
IsEnvelopeV1(data) ==
  /\ data.t = "json"
  /\ "ciphertext" \in DOMAIN data.value
  /\ data.value.v = 1

\* the envelope was made with another key than keyString, or its tag is not
\* the one made with its ciphertext
WrongKeyOrTampered(envelope, keyString) ==
  \/ envelope.ciphertext.key # deriveKeyBytesFromString(keyString)
  \/ envelope.tag # GcmTag(envelope.ciphertext.key, envelope.nonce, envelope.ciphertext)

\* C13: with a key configured, reading an encrypted token file written with
\* another key, or whose tag or ciphertext was modified, fails with INTERNAL
\* and returns neither a pair nor any plaintext.
C13_WrongKeyOrTamperedFailsClosed ==
  (/\ storeOut.done
   /\ HasKey(encryptionKey)
   /\ storeOut.of.kind \in {"file", "symlink"}
   /\ IsEnvelopeV1(storeOut.of.data)
   /\ WrongKeyOrTampered(storeOut.of.data.value, encryptionKey))
    => /\ ~storeOut.res.ok
       /\ storeOut.res.code = "INTERNAL"
       /\ storeOut.res.tokens = Null

\* a file encrypted under another key has been read, decryption was tried
C13_Witness ==
  /\ storeOut.done
  /\ HasKey(encryptionKey)
  /\ storeOut.of.kind = "file"
  /\ IsEnvelopeV1(storeOut.of.data)
  /\ storeOut.of.data.value.ciphertext.key # deriveKeyBytesFromString(encryptionKey)
  /\ storeOut.res.decrypts = 1
  /\ storeOut.res.code = "INTERNAL"

\* C14: TokenStore.read after TokenStore.write(pair), under the same
\* configuration, returns a pair equal to the one the latest write was given.
C14_RoundTrip ==
  (storeOut.done /\ writer.pc = "done")
    => /\ storeOut.res.ok
       /\ storeOut.res.tokens = writer.pair

\* C15: after every successful TokenStore.write the permission bits of the
\* token file are exactly 0600, whatever mode the file had before and
\* whatever mode the file system gave a newly created file.
C15_ModeAfterWrite == writer.pc = "done" => file.mode = Mode600

\* a write has just replaced the content of a file found with mode 0644
C15_Witness ==
  /\ writer.pc = "done"
  /\ storeOut = NoStoreOut
  /\ writer.before.kind = "file" /\ writer.before.mode = Mode644
  /\ file.mode = Mode600

----------------------------------------------------------------------------
(* Claim about a read concurrent with a write, checked under SpecStoreRace *)

\* C16: a read made while a write is under way, or after it, sees either the
\* complete content the file had before the write or the complete new
\* content.
C16_NoPartialRead ==
  (storeOut.done /\ writer.pc # "none")
    => storeOut.of.data \in {writer.before.data, writer.bytes}

----------------------------------------------------------------------------
(* Claims about the classifications, checked under SpecClassify *)

ErrorTypes ==
  {"UNAUTHENTICATED", "NOT_FOUND", "INVALID_ARGUMENT", "RESOURCE_EXHAUSTED",
   "UNAVAILABLE", "UNKNOWN"}

\* C17: the error type is a total function of the status with one type per
\* status: 401 and 403 give UNAUTHENTICATED, 404 NOT_FOUND, 400
\* INVALID_ARGUMENT, 429 RESOURCE_EXHAUSTED, 500..599 UNAVAILABLE and every
\* other status UNKNOWN.
C17_StatusToKind ==
  fnOut.typed =>
    LET st == fnIn.status
        type == fnOut.type
    IN /\ type \in ErrorTypes
       /\ type = "UNAUTHENTICATED" <=> st \in {401, 403}
       /\ type = "NOT_FOUND" <=> st = 404
       /\ type = "INVALID_ARGUMENT" <=> st = 400
       /\ type = "RESOURCE_EXHAUSTED" <=> st = 429
       /\ type = "UNAVAILABLE" <=> st \in 500..599
       /\ type = "UNKNOWN" <=> st \notin ({400, 401, 403, 404, 429} \cup (500..599))

\* the first status past the 5xx bucket has been mapped
C17_Witness == fnOut.typed /\ fnIn.status = 600 /\ fnOut.type = "UNKNOWN"

\* C18: retry eligibility is true exactly when the method is GET or DELETE,
\* in exactly this spelling, and 500 <= status < 600; evaluating it again
\* for the same input gives the same answer.
C18_RetryEligibility ==
  /\ fnOut.evals > 0 =>
       (fnOut.retry <=> /\ fnIn.method \in {"GET", "DELETE"}
                        /\ 500 <= fnIn.status /\ fnIn.status < 600)
  /\ fnOut.same

\* a lower-case method with a 5xx status was classified twice: not eligible
C18_Witness ==
  /\ fnOut.evals = 2
  /\ fnIn.method = "get" /\ fnIn.status = 503
  /\ ~fnOut.retry

----------------------------------------------------------------------------
(* Claims about withRetry, checked under SpecRetry *)

\* the outcome is a response with a 5xx status
Is5xx(outcome) ==
  outcome.t = "response" /\ outcome.status >= 500 /\ outcome.status <= 599

IsFailure(outcome) ==
  ~(outcome.t = "response" /\ outcome.status >= 200 /\ outcome.status <= 299)

\* C19: a failed attempt ends the request at once, with that failure, no
\* delay and no further attempt, whenever the method is not GET/DELETE or
\* the failure is not a 5xx status (a failure without status included),
\* whatever attempts remain; a request that is not GET/DELETE makes one
\* attempt, and POST answered with 500 fails with UNAVAILABLE.
C19_TerminalFailures ==
  [][/\ (req.pc = "awaitOperation" /\ req'.pc # "awaitOperation")
          => LET outcome == req'.seen[Len(req'.seen)]
             IN (IsFailure(outcome)
                   /\ (req.method \notin {"GET", "DELETE"} \/ ~Is5xx(outcome)))
                  => /\ req'.pc = "rejected"
                     /\ req'.error = operation(outcome).error
                     /\ req'.sleeps = req.sleeps
                     /\ req'.calls = req.calls
     /\ (req'.pc # "none" /\ req'.method \notin {"GET", "DELETE"})
          => req'.calls = 1 /\ req'.sleeps = 0
     /\ (req'.pc = "rejected" /\ req'.method = "POST"
           /\ req'.seen = <<HttpResponse(500)>>)
          => req'.error.type = "UNAVAILABLE"]_vars

\* POST was answered with 500 when attempts remained: one attempt, rejected
C19_Witness ==
  /\ req.pc = "rejected"
  /\ req.method = "POST" /\ req.maxAttempts > 1
  /\ req.seen = <<HttpResponse(500)>>
  /\ req.calls = 1 /\ req.sleeps = 0
  /\ req.error.type = "UNAVAILABLE"

\* C20: a GET or DELETE whose attempts fail with 5xx until attempt k <=
\* maxAttempts succeeds returns the result of attempt k after exactly k
\* attempts and k - 1 delays: one delay between consecutive attempts, none
\* after the last; it does not give up while attempts remain.
C20_AttemptsAndDelays ==
  (req.pc # "none" /\ req.method \in {"GET", "DELETE"}) =>
    LET k == Len(req.seen)
    IN /\ req.pc = "resolved"
            => /\ req.calls = k /\ req.sleeps = k - 1 /\ k <= req.maxAttempts
               /\ req.status = req.seen[k].status
               /\ \A i \in 1..(k - 1) : Is5xx(req.seen[i])
       /\ (req.pc = "rejected" /\ \A i \in 1..k : Is5xx(req.seen[i]))
            => req.calls = req.maxAttempts
       /\ req.pc = "awaitOperation" => (req.calls = k + 1 /\ req.sleeps = k)
       /\ req.pc = "sleeping" => (req.calls = k /\ req.sleeps = k)

\* GET met 503, 503, 200 with maxAttempts = 3: three attempts, two delays
C20_Witness ==
  /\ req.pc = "resolved"
  /\ req.method = "GET" /\ req.maxAttempts = 3
  /\ req.seen = <<HttpResponse(503), HttpResponse(503), HttpResponse(200)>>
  /\ req.calls = 3 /\ req.sleeps = 2
  /\ req.status = 200

\* C21: a GET or DELETE never makes more than maxAttempts attempts, and
\* when all maxAttempts attempts failed with 5xx the caller gets the error
\* of the last attempt.
C21_ExhaustionSurfacesLastError ==
  (req.pc # "none" /\ req.method \in {"GET", "DELETE"}) =>
    LET k == Len(req.seen)
    IN /\ req.calls <= req.maxAttempts
       /\ k <= req.maxAttempts
       /\ (req.pc = "rejected" /\ k >= 1 /\ k = req.maxAttempts
             /\ \A i \in 1..k : Is5xx(req.seen[i]))
            => /\ req.error.name = "HttpError"
               /\ req.error.status = req.seen[k].status

\* three attempts met 500, 500, 503: the request is rejected with the 503
C21_Witness ==
  /\ req.pc = "rejected"
  /\ req.method = "GET" /\ req.maxAttempts = 3
  /\ req.seen = <<HttpResponse(500), HttpResponse(500), HttpResponse(503)>>
  /\ req.calls = 3
  /\ req.error.status = 503

\* C22: every retry policy built by createRetryConfig has maxAttempts >= 1,
\* and every request that has settled made at least one attempt.
C22_AtLeastOneAttempt ==
  req.pc # "none" =>
    /\ req.maxAttempts >= 1
    /\ req.pc \in {"resolved", "rejected"} => req.calls >= 1

----------------------------------------------------------------------------
(* Claims about calculateRetryDelay, checked under SpecDelay *)

\* C23: for every attempt number n >= 1 and every retry policy the delay
\* before jitter is min(initialDelay * 2^(n-1), maxDelay); floored at zero
\* it is the delay returned when the draw is the midpoint.
C23_BackoffBeforeJitter ==
  fnOut.done =>
    LET n == fnIn.attempt
        expected == IF fnIn.config.initialDelayMs * 2^(n - 1) <= fnIn.config.maxDelayMs
                    THEN fnIn.config.initialDelayMs * 2^(n - 1)
                    ELSE fnIn.config.maxDelayMs
    IN /\ fnOut.value.cappedDelay = expected
       /\ fnIn.draw = DrawMid => fnOut.value.delay = MathMax(0, expected * HundredthsPerMs)

\* the third delay of a policy whose cap is not yet reached: 100 * 4
C23_Witness ==
  /\ fnOut.done
  /\ fnIn.attempt = 3 /\ fnIn.config.initialDelayMs = 100 /\ fnIn.config.maxDelayMs > 400
  /\ fnOut.value.cappedDelay = 400

\* C24: the delay after jitter is never negative, whatever the attempt
\* number, the policy (a jitterFactor above 2 included) and the draw.
C24_DelayNeverNegative == fnOut.done => fnOut.value.delay >= 0

\* jitterFactor 3 and the lowest draw: the jitter exceeds the delay, which
\* is floored at zero
C24_Witness ==
  /\ fnOut.done
  /\ fnIn.config.jitterTenths = 30 /\ fnIn.draw = 0
  /\ fnOut.value.cappedDelay > 0
  /\ fnOut.value.cappedDelay * HundredthsPerMs + fnOut.value.jitter < 0
  /\ fnOut.value.delay = 0

----------------------------------------------------------------------------
(* Claims about the IdentityClient, checked under SpecIdentity *)

IdentityDone == idCall.pc \in {"resolved", "rejected"}

\* C25: for both calls a response that is not 2xx is classified by its
\* status: 401 and 403 give IDENTITY_UNAUTHORIZED, 429 gives
\* IDENTITY_RATE_LIMITED, every other status IDENTITY_NETWORK carrying the
\* status; the client makes one request and never another.
C25_IdentityClassification ==
  /\ idCall.pc # "none" => idCall.fetches = 1
  /\ (IdentityDone /\ idCall.met = "response"
        /\ ~(200 <= idCall.status /\ idCall.status <= 299))
       => /\ idCall.pc = "rejected"
          /\ idCall.result.name = "AppError"
          /\ idCall.status \in {401, 403} => idCall.result.code = "IDENTITY_UNAUTHORIZED"
          /\ idCall.status = 429 => idCall.result.code = "IDENTITY_RATE_LIMITED"
          /\ idCall.status \notin {401, 403, 429}
               => /\ idCall.result.code = "IDENTITY_NETWORK"
                  /\ idCall.result.status = idCall.status

\* a refresh was answered with 403
C25_Witness ==
  /\ idCall.pc = "rejected"
  /\ idCall.kind = "refresh" /\ idCall.status = 403
  /\ idCall.result.code = "IDENTITY_UNAUTHORIZED"
  /\ idCall.fetches = 1

\* C26: on a 429 retryAfterMs is the header in milliseconds: a number of
\* seconds times 1000, or the time until an HTTP-date, never below zero;
\* with no header, or one that is neither, retryAfterMs is unset.
C26_RetryAfter ==
  (idCall.pc = "rejected" /\ idCall.met = "response" /\ idCall.status = 429) =>
    LET header == idCall.retryAfter
    IN idCall.result.retryAfterMs =
         CASE header.form = "seconds" -> header.seconds * 1000
           [] header.form = "date" ->
                IF header.when >= idCall.nowMs THEN header.when - idCall.nowMs ELSE 0
           [] OTHER -> Missing

\* C27: when requestTimeoutMs elapses before the response, the request is
\* aborted and the call fails with IDENTITY_NETWORK, with a message other
\* than that of a transport failure, which aborts nothing.
C27_TimeoutAbortsAndIsDistinct ==
  IdentityDone =>
    LET timeoutMessage == IF idCall.kind = "signIn"
                          THEN "Identity sign-in aborted/timeout"
                          ELSE "Identity refresh aborted/timeout"
    IN /\ idCall.aborted <=> idCall.met = "timeout"
       /\ idCall.met = "timeout"
            => /\ idCall.pc = "rejected"
               /\ idCall.result.name = "AppError"
               /\ idCall.result.code = "IDENTITY_NETWORK"
               /\ idCall.result.message = timeoutMessage
       /\ idCall.met = "transport"
            => /\ idCall.pc = "rejected"
               /\ idCall.result.code = "IDENTITY_NETWORK"
               /\ idCall.result.message # timeoutMessage

\* a refresh timed out
C27_Witness ==
  /\ idCall.pc = "rejected"
  /\ idCall.kind = "refresh" /\ idCall.met = "timeout" /\ idCall.aborted
  /\ idCall.result.code = "IDENTITY_NETWORK"

AuthErrorCodes ==
  {"TOKENS_NOT_FOUND", "TOKENS_FORMAT_UNSUPPORTED", "TOKENS_PATH_INVALID",
   "IDENTITY_UNAUTHORIZED", "IDENTITY_RATE_LIMITED", "IDENTITY_NETWORK", "INTERNAL"}

\* C29: every failure of an identity call reaches the caller as an AppError
\* with a code, a failure to read or parse the body of a 2xx response
\* included.
C29_IdentityFailuresClassified ==
  idCall.pc = "rejected" =>
    /\ idCall.result.name = "AppError"
    /\ idCall.result.code \in AuthErrorCodes

\* C30: every identity call that has started completes, with a result or an
\* error, also when the remote side stops responding before the response or
\* while the body is read.
C30_EveryCallCompletes == (idCall.pc = "fetching") ~> IdentityDone

----------------------------------------------------------------------------
(* Claim about the errors of HttpClient.request, checked under SpecRetry *)

\* C28: every failure of HttpClient.request reaches the caller as an error
\* carrying a kind of the taxonomy; a timeout or a transport failure of the
\* last attempt carries the kind Network.
C28_RequestFailuresClassified ==
  req.pc = "rejected" =>
    /\ req.error.type \in ErrorTypes \cup {"NETWORK"}
    /\ (Len(req.seen) > 0 /\ req.seen[Len(req.seen)].t \in {"timeout", "network"})
         => req.error.type = "NETWORK"

----------------------------------------------------------------------------
(* Further claims about calculateRetryDelay, checked under SpecDelay *)

\* C33: for every retry policy the delay before jitter never exceeds
\* maxDelay and is not below that of the attempt number before.
C33_BackoffMonotoneAndCapped ==
  fnOut.done =>
    /\ fnOut.value.cappedDelay <= fnIn.config.maxDelayMs
    /\ fnOut.hasPrev => fnOut.prev.cappedDelay <= fnOut.value.cappedDelay

\* C34: the jitter lies within plus or minus d * jitterFactor / 2 of the
\* delay d before jitter, so the delay after jitter lies between
\* max(0, d - d * jitterFactor / 2) and d + d * jitterFactor / 2, and is d
\* when the draw is the midpoint (all in hundredths of a millisecond, where
\* d * jitterFactor / 2 is d * jitterTenths * 5).
C34_JitterBounds ==
  fnOut.done =>
    LET d == fnOut.value.cappedDelay
        half == d * fnIn.config.jitterTenths * (HundredthsPerMs \div 20)
    IN /\ -half <= fnOut.value.jitter /\ fnOut.value.jitter <= half
       /\ MathMax(0, d * HundredthsPerMs - half) <= fnOut.value.delay
       /\ fnOut.value.delay <= d * HundredthsPerMs + half
       /\ fnIn.draw = DrawMid => fnOut.value.delay = d * HundredthsPerMs

----------------------------------------------------------------------------
(* Further claims about withRetry, checked under SpecRetry *)

\* C35: every attempt runs under a timer of its own, set when the attempt
\* starts, of the request's timeout (the timeout of its options, else
\* requestTimeoutMs); no timer runs between attempts; an attempt that times
\* out is one attempt: the count of attempts is what it was.
C35_PerAttemptTimeout ==
  [][/\ req'.pc # "none" =>
          /\ req'.timers = req'.calls
          /\ req'.timer.pending => req'.pc = "awaitOperation"
          /\ (req'.pc = "awaitOperation" /\ Len(req'.seen) = 0 /\ req.pc = "none")
                => req'.timer.pending
          /\ req'.calls >= 1
                => /\ req'.timer.attempt = req'.attempt
                   /\ req'.timer.ms = req'.timeout
                   /\ req'.timeout \in (TimeoutOptions \ {Missing})
                                         \cup {DefaultRequestTimeoutMs}
                   /\ req'.attempt = req'.calls
     /\ req.pc = "sleeping" => req'.timer.pending
     /\ (req.pc = "awaitOperation" /\ req'.pc # "awaitOperation"
           /\ req'.seen[Len(req'.seen)].t = "timeout")
          => /\ req'.calls = req.calls
             /\ req'.attempt = req.attempt
             /\ Len(req'.seen) = req'.calls
             /\ req'.calls <= MathMax(1, req'.maxAttempts)]_vars

\* the second attempt of a GET with a timeout of 500 ms timed out
C35_Witness ==
  /\ req.pc = "rejected"
  /\ req.method = "GET" /\ req.timeout = 500
  /\ req.seen = <<HttpResponse(503), [t |-> "timeout", status |-> 0]>>
  /\ req.calls = 2 /\ req.timers = 2
  /\ req.timer.attempt = 2

\* C40: the delay slept between two attempts never exceeds maxDelay.
C40_SleptDelayCapped ==
  req.pc = "sleeping" => req.delay <= req.config.maxDelayMs * HundredthsPerMs

----------------------------------------------------------------------------
(* Further claim about TokenStore.read, checked under SpecStore *)

----------------------------------------------------------------------------
(* Further claims about the AuthManager, checked under Spec *)

\* C37: whenever no refresh step is executing, the cached pair is the pair
\* the token file holds: the one last loaded from it or written to it, also
\* with refreshes interleaved and after a refresh whose write failed.
C37_CacheMatchesStore ==
  cachedTokens # Null =>
    /\ file.kind = "file"
    /\ \E iv \in Nonces \cup {"iv0"} :
         file.data = WriteBytes(cachedTokens, encryptionKey, iv)

IdentityFailureCodes ==
  {"IDENTITY_UNAUTHORIZED", "IDENTITY_RATE_LIMITED", "IDENTITY_NETWORK"}

\* C38: the step in which a refresh fails at its identity exchange
\* (unauthorized, rate limited, network failure or timeout) changes neither
\* the cached pair nor the token file, and neither does the return of the
\* call that awaited it.
C38_FailedExchangeChangesNothing ==
  [][\A c \in Tasks :
       (\/ /\ calls[c].pc = "awaitRefresh"
           /\ calls'[c].pc = "refreshFailed"
           /\ calls'[c].err \in IdentityFailureCodes
        \/ /\ calls[c].pc = "refreshFailed"
           /\ calls[c].err \in IdentityFailureCodes
           /\ calls'[c].pc # "refreshFailed")
         => /\ cachedTokens' = cachedTokens
            /\ file' = file]_vars

\* a refresh was answered with 429 while a pair was cached and stored
C38_Witness ==
  \E c \in Callers :
    /\ calls[c].pc = "refreshFailed"
    /\ calls[c].err = "IDENTITY_RATE_LIMITED"
    /\ cachedTokens # Null
    /\ file.kind = "file"

----------------------------------------------------------------------------
(* Claim about the log of the HttpClient, checked under SpecLog *)

SecretValues == Secrets \cup {"Bearer " \o secret : secret \in Secrets}

\* C32: the log entry of a request holds no value of an Authorization,
\* x-api-key, cookie or x-auth-token header, however the name is cased, and
\* two clients whose requests differ only in those values log the same
\* entries, over any sequence of requests and with the redaction cache
\* reused or not.
C32_LogHidesSecrets ==
  client.requests > 0 =>
    /\ client.log = twin.log
    /\ \A key \in DOMAIN client.log.headers : client.log.headers[key] \notin SecretValues
    /\ \A key \in DOMAIN twin.log.headers : twin.log.headers[key] \notin SecretValues

\* one client answered a request from its cache where the other, given
\* another secret, redacted anew; then a request carrying a secret under
\* the name Authorization was logged
C32_Witness ==
  /\ client.requests = 3
  /\ client.hits = 1 /\ twin.hits = 0
  /\ client.lastHeaders # twin.lastHeaders
  /\ "Authorization" \in DOMAIN client.log.headers
  /\ client.lastHeaders["Authorization"] \in Secrets
  /\ client.log.headers["Authorization"] = Redacted
  /\ client.log.headers["Custom-Header"] = "visible"

----------------------------------------------------------------------------
(* Claims about the TweekClient, checked under SpecClient *)

\* C31: an operation whose token refresh was answered with 401 or 403 (the
\* refresh token was revoked) fails with an error of kind UNAUTHENTICATED.
C31_RevokedRefreshUnauthenticated ==
  \A o \in Ops :
    (client.ops[o].pc = "rejected" /\ client.ops[o].refreshed
       /\ client.ops[o].refreshStatus \in {401, 403})
      => client.ops[o].error.type = "UNAUTHENTICATED"

\* C39: every attempt of every request carries the token its own operation
\* got from getValidIdToken, whatever other operations set on the shared
\* client in between.
C39_OwnTokenSent ==
  \A o \in Ops :
    client.ops[o].pc \in {"awaitResponse", "resolved", "rejected"} =>
      \A i \in 1..Len(client.ops[o].sent) :
        client.ops[o].sent[i] = "Bearer " \o client.ops[o].idToken

\* operation 1 sent a second attempt after operation 2 had set another
\* token on the shared client
C39_Witness ==
  /\ client.ops[1].pc = "awaitResponse"
  /\ Len(client.ops[1].sent) = 2
  /\ client.ops[1].idToken = "n1"
  /\ client.ops[2].pc = "awaitResponse"
  /\ client.ops[2].idToken = "n2"
  /\ client.httpClient.authToken = "n2"

====
